---- MODULE Spec2Model ----
(***************************************************************************)
(* A model of the nosotros identity and secret-management core:            *)
(*   Identity      src/src/nostr/keys.rs                                   *)
(*   EventCodec    src/src/nostr/event.rs                                  *)
(*   KeystoreCrypto src/src/keystore.rs                                    *)
(*   AccountStore  src/src/accounts.rs                                     *)
(*                                                                         *)
(* Strings are sequences of ASCII codes and byte strings are sequences of  *)
(* 0..255, so that hex, JSON and length checks are computed as the code    *)
(* computes them.  The library primitives the code calls are idealised:    *)
(* secp256k1 is a Schnorr group of prime order (Curve), SHA-256 is a       *)
(* four-lane digest widened to 32 bytes, and Argon2 and ChaCha20-Poly1305  *)
(* are symbolic: a hash is the term of its inputs, and a ciphertext opens  *)
(* under the key and nonce that made it and under no other.                *)
(***************************************************************************)
EXTENDS Integers, Naturals, Sequences, FiniteSets, TLC

\* ------------------------------------------------------------------------
\* Result<T>: Ok(v) or Err(e)
\* ------------------------------------------------------------------------
Ok(v) == [ok |-> TRUE, val |-> v, err |-> "", panic |-> FALSE]

Err(e) == [ok |-> FALSE, val |-> <<>>, err |-> e, panic |-> FALSE]

Panic(e) == [ok |-> FALSE, val |-> <<>>, err |-> e, panic |-> TRUE]

None == [some |-> FALSE]

Some(v) == [some |-> TRUE, v |-> v]

\* ------------------------------------------------------------------------
\* Strings and bytes
\* ------------------------------------------------------------------------
\* "0".."9" are 48..57, "a".."f" are 97..102
HexChar(n) == IF n < 10 THEN 48 + n ELSE 87 + n

\* hex::encode: two lowercase hex characters per byte
hex_encode(bytes) ==
    [i \in 1..(2 * Len(bytes)) |->
        IF i % 2 = 1 THEN HexChar(bytes[(i + 1) \div 2] \div 16)
                     ELSE HexChar(bytes[i \div 2] % 16)]

\* the value of a hex character, -1 when it is none
HexVal(c) ==
    IF c >= 48 /\ c <= 57 THEN c - 48
    ELSE IF c >= 97 /\ c <= 102 THEN c - 87
    ELSE IF c >= 65 /\ c <= 70 THEN c - 55
    ELSE -1

\* hex::decode: fails on an odd length or on a character that is no hex digit
hex_decode(s) ==
    IF Len(s) % 2 = 1 THEN Err("OddLength")
    ELSE IF \E i \in 1..Len(s) : HexVal(s[i]) = -1 THEN Err("InvalidHexCharacter")
    ELSE Ok([i \in 1..(Len(s) \div 2) |->
                16 * HexVal(s[2 * i - 1]) + HexVal(s[2 * i])])

\* a number below 256 as a big-endian byte string of n bytes
NatToBytes(x, n) == [i \in 1..n |-> IF i = n THEN x ELSE 0]

\* the number a big-endian byte string holds; -1 when it is 256 or more
BytesToNat(b) ==
    IF Len(b) = 0 THEN 0
    ELSE IF \E i \in 1..(Len(b) - 1) : b[i] # 0 THEN -1
    ELSE b[Len(b)]

RECURSIVE DecDigits(_)
\* the decimal digits of a natural number, as serde_json writes a u64
DecDigits(n) ==
    IF n < 10 THEN <<48 + n>> ELSE DecDigits(n \div 10) \o <<48 + (n % 10)>>

RECURSIVE Lane(_, _, _, _)
\* one lane of a digest: the bytes lo..hi of s, each weighted by its position,
\* summed below 2^15 (halving the range keeps the evaluation shallow)
Lane(s, lo, hi, base) ==
    IF lo > hi THEN 0
    ELSE IF lo = hi THEN ((s[lo] + 1) * (((lo * lo + 3) * base + lo) % 32749)) % 32749
    ELSE (Lane(s, lo, (lo + hi) \div 2, base)
            + Lane(s, ((lo + hi) \div 2) + 1, hi, base)) % 32749

\* a 32-byte digest of a byte string (stands for SHA-256)
Digest32(s) ==
    LET l1 == (Lane(s, 1, Len(s), 131) + Len(s)) % 32749
        l2 == (Lane(s, 1, Len(s), 257) + 7) % 32749
        l3 == (Lane(s, 1, Len(s), 1031) + 11) % 32749
        l4 == (Lane(s, 1, Len(s), 4099) + 13) % 32749
        w  == <<l1 \div 256, l1 % 256, l2 \div 256, l2 % 256,
                l3 \div 256, l3 % 256, l4 \div 256, l4 % 256>>
    IN  [i \in 1..32 |-> (w[((i - 1) % 8) + 1] + 29 * ((i - 1) \div 8)) % 256]

\* ------------------------------------------------------------------------
\* Identity (src/src/nostr/keys.rs)
\* ------------------------------------------------------------------------
\* the group: g generates the subgroup of prime order q of the integers mod p
Curve == [p |-> 47, q |-> 23, g |-> 2]

SECRET_KEY_SIZE == 32

PUBLIC_KEY_SIZE == 32

SIGNATURE_SIZE == 64

MESSAGE_SIZE == 32

RECURSIVE PowMod(_, _, _)
PowMod(b, e, m) == IF e = 0 THEN 1 % m ELSE (b * PowMod(b, e - 1, m)) % m

\* the secret scalars: not zero and below the group order
ValidScalar(x) == x >= 1 /\ x < Curve.q

\* the public point of a secret scalar
PointOf(x) == PowMod(Curve.g, x, Curve.p)

\* a point of the group: a member of the subgroup g generates
ValidPoint(P) == P >= 1 /\ P < Curve.p /\ PowMod(P, Curve.q, Curve.p) = 1

\* a faulty SecretKey::from_byte_array that takes every 32 bytes for a scalar
SecretKey_from_bytes_any(b) ==
    IF Len(b) # SECRET_KEY_SIZE THEN Err("Invalid secret key length")
    ELSE Ok(BytesToNat(b))

\* SecretKey::from_byte_array: 32 bytes holding a valid scalar
SecretKey_from_bytes(b) ==
    IF Len(b) # SECRET_KEY_SIZE THEN Err("Invalid secret key length")
    ELSE IF ~ValidScalar(BytesToNat(b)) THEN Err("InvalidSecretKey")
    ELSE Ok(BytesToNat(b))

\* NostrKeypair, built by Keypair::from_secret_key
Keypair(x) == [secret |-> x, public |-> PointOf(x)]

secret_key_hex(kp) == hex_encode(NatToBytes(kp.secret, SECRET_KEY_SIZE))

public_key_hex(kp) == hex_encode(NatToBytes(kp.public, PUBLIC_KEY_SIZE))

\* NostrKeypair::public_key_npub: the bech32 string of the x-only public key
\* under the prefix "npub"
public_key_npub(kp) ==
    Ok([hrp |-> "npub", data |-> NatToBytes(kp.public, PUBLIC_KEY_SIZE)])

\* a faulty keypair_from_hex that builds the keypair of the next scalar
keypair_from_hex_shifted(secret_hex) ==
    LET d == hex_decode(secret_hex)
    IN  IF ~d.ok THEN Err(d.err)
        ELSE LET k == SecretKey_from_bytes(d.val)
             IN  IF ~k.ok THEN Err(k.err) ELSE Ok(Keypair((k.val % (Curve.q - 1)) + 1))

\* keypair_from_hex: hex::decode, then the length and the scalar are checked
keypair_from_hex(secret_hex) ==
    LET d == hex_decode(secret_hex)
    IN  IF ~d.ok THEN Err(d.err)
        ELSE LET k == SecretKey_from_bytes(d.val)
             IN  IF ~k.ok THEN Err(k.err) ELSE Ok(Keypair(k.val))

\* the challenge of a Schnorr signature: a digest of R, P and the message
Challenge(R, P, m) ==
    Lane(<<R, P>> \o m, 1, 2 + Len(m), 131) % Curve.q

\* a faulty signer that leaves the secret key out of s; its signatures must not
\* pass verification
sign_schnorr_unkeyed(m, kp, k) ==
    LET R == PowMod(Curve.g, k, Curve.p)
        e == Challenge(R, kp.public, m)
        s == (k + e) % Curve.q
    IN  NatToBytes(R, 32) \o NatToBytes(s, 32)

\* secp.sign_schnorr: nonce k, R = g^k, s = k + e*x; the signature is R || s
sign_schnorr(m, kp, k) ==
    LET R == PowMod(Curve.g, k, Curve.p)
        e == Challenge(R, kp.public, m)
        s == (k + e * kp.secret) % Curve.q
    IN  NatToBytes(R, 32) \o NatToBytes(s, 32)

\* NostrKeypair::sign_message: the message must be exactly 32 bytes
sign_message(kp, message, k) ==
    IF Len(message) # MESSAGE_SIZE THEN Err("Message must be exactly 32 bytes")
    ELSE Ok(sign_schnorr(message, kp, k))

\* secp.verify_schnorr: g^s = R * P^e
verify_schnorr(sig, m, P) ==
    LET R == BytesToNat(SubSeq(sig, 1, 32))
        s == BytesToNat(SubSeq(sig, 33, 64))
    IN  /\ R >= 1 /\ R < Curve.p
        /\ s >= 0 /\ s < Curve.q
        /\ PowMod(Curve.g, s, Curve.p)
             = (R * PowMod(P, Challenge(R, P, m), Curve.p)) % Curve.p

\* ------------------------------------------------------------------------
\* EventCodec (src/src/nostr/event.rs)
\* ------------------------------------------------------------------------
RECURSIVE JsonEscapeRange(_, _, _)
\* the characters lo..hi of s, quote and backslash with a backslash before them
JsonEscapeRange(s, lo, hi) ==
    IF lo > hi THEN <<>>
    ELSE IF lo = hi
        THEN (IF s[lo] = 34 \/ s[lo] = 92 THEN <<92, s[lo]>> ELSE <<s[lo]>>)
    ELSE JsonEscapeRange(s, lo, (lo + hi) \div 2)
            \o JsonEscapeRange(s, ((lo + hi) \div 2) + 1, hi)

\* the body of a JSON string
JsonEscape(s) == JsonEscapeRange(s, 1, Len(s))

\* serde_json writes a string between quotes
JsonString(s) == <<34>> \o JsonEscape(s) \o <<34>>

RECURSIVE JsonStringList(_)
\* the elements of an array of strings, separated by commas
JsonStringList(t) ==
    IF t = <<>> THEN <<>>
    ELSE IF Len(t) = 1 THEN JsonString(t[1])
    ELSE JsonString(t[1]) \o <<44>> \o JsonStringList(Tail(t))

RECURSIVE JsonTagList(_)
\* the elements of an array of arrays of strings
JsonTagList(tags) ==
    IF tags = <<>> THEN <<>>
    ELSE IF Len(tags) = 1 THEN <<91>> \o JsonStringList(tags[1]) \o <<93>>
    ELSE <<91>> \o JsonStringList(tags[1]) \o <<93, 44>> \o JsonTagList(Tail(tags))

\* serde_json::to_string(&[0, pubkey, created_at, kind, tags, content])
canonical_bytes(u) ==
    <<91, 48, 44>> \o JsonString(u.pubkey) \o <<44>>
        \o DecDigits(u.created_at) \o <<44>>
        \o DecDigits(u.kind) \o <<44, 91>>
        \o JsonTagList(u.tags) \o <<93, 44>>
        \o JsonString(u.content) \o <<93>>

\* a faulty calculate_id that leaves the kind out of what it hashes
calculate_id_without_kind(u) ==
    hex_encode(Digest32(canonical_bytes([u EXCEPT !.kind = 0])))

\* UnsignedEvent::calculate_id: hex of the SHA-256 of the serialised tuple
calculate_id(u) == hex_encode(Digest32(canonical_bytes(u)))

\* UnsignedEvent::new_text_note with with_timestamp, with_kind and with_tags
UnsignedEvent(pubkey, created_at, kind, tags, content) ==
    [pubkey |-> pubkey, created_at |-> created_at, kind |-> kind,
     tags |-> tags, content |-> content]

\* a faulty sign that gives the event the public key of the signing keypair
sign_as_signer(u, kp, k) ==
    LET id == calculate_id(u)
        id_bytes == hex_decode(id)
    IN  IF ~id_bytes.ok THEN Err(id_bytes.err)
        ELSE LET signature == sign_message(kp, id_bytes.val, k)
             IN  IF ~signature.ok THEN Err(signature.err)
                 ELSE Ok([id |-> id, pubkey |-> public_key_hex(kp),
                          created_at |-> u.created_at, kind |-> u.kind,
                          tags |-> u.tags, content |-> u.content,
                          sig |-> hex_encode(signature.val)])

\* UnsignedEvent::sign: the id is computed, decoded and signed; k is the nonce
sign(u, kp, k) ==
    LET id == calculate_id(u)
        id_bytes == hex_decode(id)
    IN  IF ~id_bytes.ok THEN Err(id_bytes.err)
        ELSE LET signature == sign_message(kp, id_bytes.val, k)
             IN  IF ~signature.ok THEN Err(signature.err)
                 ELSE Ok([id |-> id, pubkey |-> u.pubkey,
                          created_at |-> u.created_at, kind |-> u.kind,
                          tags |-> u.tags, content |-> u.content,
                          sig |-> hex_encode(signature.val)])

\* UnsignedEvent::new_text_note; now is what SystemTime::now gives in seconds
UnsignedEvent_new_text_note(content, pubkey, now) ==
    [pubkey |-> pubkey, created_at |-> now, kind |-> 1, tags |-> <<>>,
     content |-> content]

\* a faulty NostrEvent::new_text_note that signs the note as one of kind 0
new_text_note_as_metadata(content, keypair, now, k) ==
    sign([UnsignedEvent_new_text_note(content, public_key_hex(keypair), now)
            EXCEPT !.kind = 0], keypair, k)

\* NostrEvent::new_text_note; k is the nonce of the signature
new_text_note(content, keypair, now, k) ==
    sign(UnsignedEvent_new_text_note(content, public_key_hex(keypair), now),
         keypair, k)

\* NostrEvent::verify_signature
verify_signature(e, pk_hex) ==
    LET id_bytes == hex_decode(e.id)
        sig_bytes == hex_decode(e.sig)
        pubkey_bytes == hex_decode(pk_hex)
    IN  IF ~id_bytes.ok THEN Err(id_bytes.err)
        ELSE IF ~sig_bytes.ok THEN Err(sig_bytes.err)
        ELSE IF ~pubkey_bytes.ok THEN Err(pubkey_bytes.err)
        ELSE IF Len(sig_bytes.val) # SIGNATURE_SIZE THEN Ok(FALSE)
        ELSE IF Len(pubkey_bytes.val) # PUBLIC_KEY_SIZE THEN Ok(FALSE)
        ELSE IF ~ValidPoint(BytesToNat(pubkey_bytes.val)) THEN Err("InvalidPublicKey")
        ELSE IF Len(id_bytes.val) # MESSAGE_SIZE THEN Err("Invalid message length")
        ELSE Ok(verify_schnorr(sig_bytes.val, id_bytes.val,
                               BytesToNat(pubkey_bytes.val)))

\* ------------------------------------------------------------------------
\* KeystoreCrypto (src/src/keystore.rs)
\* ------------------------------------------------------------------------
NONCE_SIZE == 12

KEY_SIZE == 32

KEYSTORE_VERSION == 1

\* Argon2::default(): the hash of a password under a salt, 32 bytes long
Argon2_hash(password, salt) == [password |-> password, salt |-> salt, len |-> 32]

\* SaltString::generate: the r-th salt the generator can draw
SaltString_generate(r) == [b64 |-> TRUE, n |-> r]

\* SaltString::from_b64
SaltString_from_b64(salt) ==
    IF salt.b64 THEN Ok(salt) ELSE Err("Invalid salt format")

\* argon2.hash_password(..).to_string(): the PHC string with salt and hash
hash_password(password, salt) ==
    [phc |-> TRUE, salt |-> salt, hash |-> Argon2_hash(password, salt)]

\* a faulty check that accepts every password
verify_password_any(keystore, password) ==
    IF ~keystore.password_hash.phc THEN Err("Invalid password hash format")
    ELSE Ok(TRUE)

\* KeystoreManager::verify_password
verify_password(keystore, password) ==
    IF ~keystore.password_hash.phc THEN Err("Invalid password hash format")
    ELSE IF Argon2_hash(password, keystore.password_hash.salt)
                # keystore.password_hash.hash
        THEN Err("Invalid password")
    ELSE Ok(TRUE)

\* KeystoreManager::derive_encryption_key: the first 32 bytes of the hash
derive_encryption_key(password, salt) ==
    LET h == hash_password(password, salt).hash
    IN  IF h.len < KEY_SIZE THEN Err("Derived hash too short for encryption key")
        ELSE Ok([h EXCEPT !.len = KEY_SIZE])

RECURSIVE SortedSeq(_)
\* the members of a set of numbers in ascending order
SortedSeq(S) ==
    IF S = {} THEN <<>>
    ELSE LET m == CHOOSE x \in S : \A y \in S : x <= y
         IN  <<m>> \o SortedSeq(S \ {m})

Reverse(q) == [i \in 1..Len(q) |-> q[Len(q) + 1 - i]]

\* serde_json::to_string of the HashMap: its entries in the map's iteration order
keys_to_json(keys, r) ==
    LET ids == IF r % 2 = 1 THEN SortedSeq(DOMAIN keys)
                            ELSE Reverse(SortedSeq(DOMAIN keys))
    IN  [utf8 |-> TRUE, json |-> TRUE,
         entries |-> [i \in 1..Len(ids) |-> <<ids[i], keys[ids[i]]>>]]

\* a faulty parser that gives every id the key of the first entry
keys_from_json_first(text) ==
    IF ~text.json THEN Err("Failed to parse decrypted keys")
    ELSE LET e == text.entries
             ids == {e[i][1] : i \in 1..Len(e)}
         IN  Ok([id \in ids |-> e[1][2]])

\* serde_json::from_str into a HashMap: a later entry replaces an earlier one
keys_from_json(text) ==
    IF ~text.json THEN Err("Failed to parse decrypted keys")
    ELSE LET e == text.entries
             ids == {e[i][1] : i \in 1..Len(e)}
         IN  Ok([id \in ids |->
                    e[CHOOSE i \in 1..Len(e) :
                        /\ e[i][1] = id
                        /\ \A j \in (i + 1)..Len(e) : e[j][1] # id][2]])

\* ChaCha20Poly1305::generate_nonce: 12 bytes
generate_nonce(r) == [i \in 1..NONCE_SIZE |-> r]

\* cipher.encrypt: the ciphertext with its tag
aead_encrypt(key, nonce, plaintext) ==
    [key |-> key, nonce |-> nonce, plaintext |-> plaintext, intact |-> TRUE]

\* cipher.decrypt: the tag is checked under the key and nonce
aead_decrypt(key, nonce, data) ==
    IF data.intact /\ data.key = key /\ data.nonce = nonce
        THEN Ok(data.plaintext)
        ELSE Err("Decryption failed")

\* KeystoreManager::create_keystore; r is what the random generator yields
create_keystore(keys, password, r) ==
    LET seal(salt, encryption_key, nonce) ==
            IF ~encryption_key.ok THEN Err(encryption_key.err)
            ELSE Ok([salt |-> salt,
                     password_hash |-> hash_password(password, salt),
                     nonce |-> nonce,
                     encrypted_data |->
                        aead_encrypt(encryption_key.val, nonce, keys_to_json(keys, r)),
                     version |-> KEYSTORE_VERSION])
        with_salt(salt) ==
            seal(salt, derive_encryption_key(password, salt), generate_nonce(r))
    IN  with_salt(SaltString_generate(r))

\* the steps of decrypt_keystore that run for a keystore and a password
decrypt_steps(keystore, password) ==
    LET after_salt(salt) ==
            IF ~salt.ok THEN <<"verify_password", "from_b64">>
            ELSE IF ~derive_encryption_key(password, salt.val).ok
                THEN <<"verify_password", "from_b64", "derive_encryption_key">>
            ELSE <<"verify_password", "from_b64", "derive_encryption_key", "decrypt">>
    IN  IF ~verify_password(keystore, password).ok THEN <<"verify_password">>
        ELSE after_salt(SaltString_from_b64(keystore.salt))

\* KeystoreManager::decrypt_keystore
decrypt_keystore(keystore, password) ==
    LET parsed(keys_map) ==
            IF ~keys_map.ok THEN Err(keys_map.err) ELSE Ok(keys_map.val)
        decrypted(decrypted_data) ==
            IF ~decrypted_data.ok THEN Err(decrypted_data.err)
            ELSE IF ~decrypted_data.val.utf8
                THEN Err("Invalid UTF-8 in decrypted data")
            ELSE parsed(keys_from_json(decrypted_data.val))
        with_key(encryption_key) ==
            IF ~encryption_key.ok THEN Err(encryption_key.err)
            ELSE IF Len(keystore.nonce) # NONCE_SIZE THEN Panic("Nonce::from_slice")
            ELSE decrypted(aead_decrypt(encryption_key.val, keystore.nonce,
                                        keystore.encrypted_data))
        with_salt(salt) ==
            IF ~salt.ok THEN Err(salt.err)
            ELSE with_key(derive_encryption_key(password, salt.val))
        verified(v) ==
            IF ~v.ok THEN Err(v.err)
            ELSE with_salt(SaltString_from_b64(keystore.salt))
    IN  verified(verify_password(keystore, password))

\* a faulty add_key_to_keystore that seals the new key alone
add_key_to_keystore_alone(keystore, password, account_id, private_key, r) ==
    LET insert(decrypted) ==
            IF ~decrypted.ok THEN decrypted
            ELSE create_keystore([id \in {account_id} |-> private_key], password, r)
    IN  insert(decrypt_keystore(keystore, password))

\* KeystoreManager::add_key_to_keystore: open, insert, seal again
add_key_to_keystore(keystore, password, account_id, private_key, r) ==
    LET insert(decrypted) ==
            IF ~decrypted.ok THEN decrypted
            ELSE create_keystore(
                    [id \in (DOMAIN decrypted.val) \cup {account_id} |->
                        IF id = account_id THEN private_key ELSE decrypted.val[id]],
                    password, r)
    IN  insert(decrypt_keystore(keystore, password))

\* a faulty remove_key_from_keystore that fails when it finds no key to remove
remove_key_from_keystore_strict(keystore, password, account_id, r) ==
    LET remove(decrypted) ==
            IF ~decrypted.ok THEN decrypted
            ELSE IF account_id \notin DOMAIN decrypted.val THEN Err("Key not found")
            ELSE create_keystore(
                    [id \in (DOMAIN decrypted.val) \ {account_id} |-> decrypted.val[id]],
                    password, r)
    IN  remove(decrypt_keystore(keystore, password))

\* KeystoreManager::remove_key_from_keystore: open, remove, seal again
remove_key_from_keystore(keystore, password, account_id, r) ==
    LET remove(decrypted) ==
            IF ~decrypted.ok THEN decrypted
            ELSE create_keystore(
                    [id \in (DOMAIN decrypted.val) \ {account_id} |-> decrypted.val[id]],
                    password, r)
    IN  remove(decrypt_keystore(keystore, password))

\* ------------------------------------------------------------------------
\* AccountStore (src/src/accounts.rs)
\*
\* An AccountManager is the record
\*   [cfg  |-> accounts_config: [accounts, active_account_id],
\*    keys |-> unlocked_keys: None or Some(map from account id to secret hex),
\*    ksf  |-> the content of keystore.json, None while the file does not exist,
\*    cfgf |-> the content of accounts.json,
\*    log  |-> the files written since the call began, in the order of the writes]
\* An AccountInfo is [id, public_key_hex, is_active]; name, public_key_npub and
\* created_at take no part in any decision and are left out, as is
\* security_settings.  Every operation yields [st |-> the manager after the call,
\* res |-> its Result].  io names the file whose writes fail during the call
\* ("keystore", "config") or is "ok"; a write that fails leaves its file as it was.
\* r is what the random generator yields for the salt and nonce of the call.
\* ------------------------------------------------------------------------
\* AccountManager::load_accounts_config for a directory without accounts.json
default_config == [accounts |-> <<>>, active_account_id |-> None]

\* AccountManager::new on an empty directory
new_manager ==
    [cfg |-> default_config, keys |-> None, ksf |-> None, cfgf |-> default_config,
     log |-> <<"config">>]

is_unlocked(st) == st.keys.some

\* AccountManager::save_keystore
save_keystore(st, ks, io) ==
    IF io = "keystore" THEN [st |-> st, res |-> Err("keystore write failed")]
    ELSE [st |-> [st EXCEPT !.ksf = Some(ks), !.log = Append(@, "keystore")],
          res |-> Ok(TRUE)]

\* AccountManager::load_keystore
load_keystore(st) ==
    IF st.ksf.some THEN Ok(st.ksf.v) ELSE Err("keystore read failed")

\* AccountManager::save_accounts_config
save_accounts_config(st, io) ==
    IF io = "config" THEN [st |-> st, res |-> Err("config write failed")]
    ELSE [st |-> [st EXCEPT !.cfgf = st.cfg, !.log = Append(@, "config")],
          res |-> Ok(TRUE)]

\* a faulty unlock_keystore that installs the result of decrypt_keystore without
\* looking at its error
unlock_keystore_unchecked(st, password, r, io) ==
    LET saved(sv) ==
            IF ~sv.res.ok THEN [st |-> st, res |-> sv.res]
            ELSE [st |-> [sv.st EXCEPT !.keys = Some(<<>>)], res |-> Ok(TRUE)]
        created(ks) ==
            IF ~ks.ok THEN [st |-> st, res |-> Err(ks.err)]
            ELSE saved(save_keystore(st, ks.val, io))
        opened_with(decrypted_keys) ==
            [st |-> [st EXCEPT !.keys = Some(decrypted_keys.val)], res |-> Ok(TRUE)]
    IN  IF ~st.ksf.some
        THEN created(create_keystore(<<>>, password, r))
        ELSE opened_with(decrypt_keystore(load_keystore(st).val, password))

\* AccountManager::unlock_keystore
unlock_keystore(st, password, r, io) ==
    LET saved(sv) ==
            IF ~sv.res.ok THEN [st |-> st, res |-> sv.res]
            ELSE [st |-> [sv.st EXCEPT !.keys = Some(<<>>)], res |-> Ok(TRUE)]
        created(ks) ==
            IF ~ks.ok THEN [st |-> st, res |-> Err(ks.err)]
            ELSE saved(save_keystore(st, ks.val, io))
        opened_with(decrypted_keys) ==
            IF ~decrypted_keys.ok THEN [st |-> st, res |-> decrypted_keys]
            ELSE [st |-> [st EXCEPT !.keys = Some(decrypted_keys.val)],
                  res |-> Ok(TRUE)]
    IN  IF ~st.ksf.some
        THEN created(create_keystore(<<>>, password, r))
        ELSE opened_with(decrypt_keystore(load_keystore(st).val, password))

\* AccountManager::lock_keystore
lock_keystore(st) == [st EXCEPT !.keys = None]

\* a faulty start of a mutating operation that goes on after a failed unlock
ensure_unlocked_ignoring(st, password, r, io) ==
    IF is_unlocked(st) THEN [st |-> st, res |-> Ok(TRUE)]
    ELSE [st |-> unlock_keystore(st, password, r, io).st, res |-> Ok(TRUE)]

\* the first lines of every mutating operation: unlock unless unlocked
ensure_unlocked(st, password, r, io) ==
    IF is_unlocked(st) THEN [st |-> st, res |-> Ok(TRUE)]
    ELSE unlock_keystore(st, password, r, io)

\* a faulty add_private_key_to_keystore that writes the file and leaves the
\* unlocked key map as it was
add_private_key_to_keystore_file_only(st, account_id, private_key_hex, password, r, io) ==
    LET saved(sv) ==
            IF ~sv.res.ok THEN [st |-> st, res |-> sv.res]
            ELSE [st |-> sv.st, res |-> Ok(TRUE)]
        sealed_as(updated) ==
            IF ~updated.ok THEN [st |-> st, res |-> updated]
            ELSE saved(save_keystore(st, updated.val, io))
        loaded(ks) ==
            IF ~ks.ok THEN [st |-> st, res |-> ks]
            ELSE sealed_as(add_key_to_keystore(ks.val, password, account_id,
                                               private_key_hex, r))
    IN  loaded(load_keystore(st))

\* AccountManager::add_private_key_to_keystore
add_private_key_to_keystore(st, account_id, private_key_hex, password, r, io) ==
    LET saved(sv) ==
            IF ~sv.res.ok THEN [st |-> st, res |-> sv.res]
            ELSE IF ~sv.st.keys.some THEN [st |-> sv.st, res |-> Ok(TRUE)]
            ELSE [st |-> [sv.st EXCEPT !.keys =
                            Some([id \in (DOMAIN sv.st.keys.v) \cup {account_id} |->
                                    IF id = account_id THEN private_key_hex
                                    ELSE sv.st.keys.v[id]])],
                  res |-> Ok(TRUE)]
        sealed_as(updated) ==
            IF ~updated.ok THEN [st |-> st, res |-> updated]
            ELSE saved(save_keystore(st, updated.val, io))
        loaded(ks) ==
            IF ~ks.ok THEN [st |-> st, res |-> ks]
            ELSE sealed_as(add_key_to_keystore(ks.val, password, account_id,
                                               private_key_hex, r))
    IN  loaded(load_keystore(st))

\* a faulty remove_private_key_from_keystore that seals the unlocked keys anew
\* under the password of the call and never opens the file
remove_private_key_from_keystore_resealing(st, account_id, password, r, io) ==
    LET saved(sv) ==
            IF ~sv.res.ok THEN [st |-> st, res |-> sv.res]
            ELSE [st |-> [sv.st EXCEPT !.keys =
                            Some([id \in (DOMAIN sv.st.keys.v) \ {account_id} |->
                                    sv.st.keys.v[id]])],
                  res |-> Ok(TRUE)]
        sealed_as(updated) ==
            IF ~updated.ok THEN [st |-> st, res |-> updated]
            ELSE saved(save_keystore(st, updated.val, io))
    IN  IF ~st.keys.some THEN [st |-> st, res |-> Err("keystore read failed")]
        ELSE sealed_as(create_keystore(
                [id \in (DOMAIN st.keys.v) \ {account_id} |-> st.keys.v[id]],
                password, r))

\* a faulty remove_private_key_from_keystore that rewrites the file and leaves
\* the unlocked key map as it was
remove_private_key_from_keystore_file_only(st, account_id, password, r, io) ==
    LET saved(sv) ==
            IF ~sv.res.ok THEN [st |-> st, res |-> sv.res]
            ELSE [st |-> sv.st, res |-> Ok(TRUE)]
        sealed_as(updated) ==
            IF ~updated.ok THEN [st |-> st, res |-> updated]
            ELSE saved(save_keystore(st, updated.val, io))
        loaded(ks) ==
            IF ~ks.ok THEN [st |-> st, res |-> ks]
            ELSE sealed_as(remove_key_from_keystore(ks.val, password, account_id, r))
    IN  loaded(load_keystore(st))

\* AccountManager::remove_private_key_from_keystore
remove_private_key_from_keystore(st, account_id, password, r, io) ==
    LET saved(sv) ==
            IF ~sv.res.ok THEN [st |-> st, res |-> sv.res]
            ELSE IF ~sv.st.keys.some THEN [st |-> sv.st, res |-> Ok(TRUE)]
            ELSE [st |-> [sv.st EXCEPT !.keys =
                            Some([id \in (DOMAIN sv.st.keys.v) \ {account_id} |->
                                    sv.st.keys.v[id]])],
                  res |-> Ok(TRUE)]
        sealed_as(updated) ==
            IF ~updated.ok THEN [st |-> st, res |-> updated]
            ELSE saved(save_keystore(st, updated.val, io))
        loaded(ks) ==
            IF ~ks.ok THEN [st |-> st, res |-> ks]
            ELSE sealed_as(remove_key_from_keystore(ks.val, password, account_id, r))
    IN  loaded(load_keystore(st))

\* a faulty tail that pushes the record and leaves active_account_id as it was
store_account_inactive(st, account_info, private_key_hex, password, r, io) ==
    LET saved(sv) ==
            IF ~sv.res.ok THEN [st |-> sv.st, res |-> sv.res]
            ELSE [st |-> sv.st, res |-> Ok(account_info)]
        added(a) ==
            IF ~a.res.ok THEN [st |-> a.st, res |-> a.res]
            ELSE saved(save_accounts_config(
                    [a.st EXCEPT !.cfg.accounts = Append(@, account_info)], io))
    IN  added(add_private_key_to_keystore(st, account_info.id, private_key_hex,
                                          password, r, io))

\* a faulty tail that saves the configuration before it stores the key
store_account_config_first(st, account_info, private_key_hex, password, r, io) ==
    LET added(a) ==
            IF ~a.res.ok THEN [st |-> a.st, res |-> a.res]
            ELSE [st |-> a.st, res |-> Ok(account_info)]
        saved(sv) ==
            IF ~sv.res.ok THEN [st |-> sv.st, res |-> sv.res]
            ELSE added(add_private_key_to_keystore(sv.st, account_info.id,
                                                   private_key_hex, password, r, io))
    IN  saved(save_accounts_config(
                [st EXCEPT
                    !.cfg.accounts = Append(@, account_info),
                    !.cfg.active_account_id =
                        IF @.some THEN @ ELSE Some(account_info.id)], io))

\* the tail of create_account and import_account: the key is stored, the record
\* is pushed, the account becomes the active one if there was none, the
\* configuration is saved
store_account(st, account_info, private_key_hex, password, r, io) ==
    LET saved(sv) ==
            IF ~sv.res.ok THEN [st |-> sv.st, res |-> sv.res]
            ELSE [st |-> sv.st, res |-> Ok(account_info)]
        added(a) ==
            IF ~a.res.ok THEN [st |-> a.st, res |-> a.res]
            ELSE saved(save_accounts_config(
                    [a.st EXCEPT
                        !.cfg.accounts = Append(@, account_info),
                        !.cfg.active_account_id =
                            IF @.some THEN @ ELSE Some(account_info.id)], io))
    IN  added(add_private_key_to_keystore(st, account_info.id, private_key_hex,
                                          password, r, io))

\* a faulty create_account that flags the account active when no account is
\* recorded as the active one
create_account_if_none(st, password, x, account_id, r, io) ==
    LET unlocked(u, keypair) ==
            IF ~u.res.ok THEN u
            ELSE store_account(u.st,
                               [id |-> account_id,
                                public_key_hex |-> public_key_hex(keypair),
                                is_active |-> ~u.st.cfg.active_account_id.some],
                               secret_key_hex(keypair), password, r, io)
    IN  unlocked(ensure_unlocked(st, password, r, io), Keypair(x))

\* AccountManager::create_account; x is the secret generate_keypair draws and
\* account_id the UUID
create_account(st, password, x, account_id, r, io) ==
    LET unlocked(u, keypair) ==
            IF ~u.res.ok THEN u
            ELSE store_account(u.st,
                               [id |-> account_id,
                                public_key_hex |-> public_key_hex(keypair),
                                is_active |-> u.st.cfg.accounts = <<>>],
                               secret_key_hex(keypair), password, r, io)
    IN  unlocked(ensure_unlocked(st, password, r, io), Keypair(x))

\* a faulty import_account that does not look for the public key in the list
import_account_unchecked(st, private_key_hex, password, account_id, r, io) ==
    LET derived(u, pk) ==
            store_account(u.st,
                          [id |-> account_id,
                           public_key_hex |-> pk,
                           is_active |-> u.st.cfg.accounts = <<>>],
                          private_key_hex, password, r, io)
        parsed(u, keypair) ==
            IF ~keypair.ok THEN [st |-> u.st, res |-> keypair]
            ELSE derived(u, public_key_hex(keypair.val))
        unlocked(u) ==
            IF ~u.res.ok THEN u
            ELSE parsed(u, keypair_from_hex(private_key_hex))
    IN  unlocked(ensure_unlocked(st, password, r, io))

\* AccountManager::import_account
import_account(st, private_key_hex, password, account_id, r, io) ==
    LET derived(u, pk) ==
            IF \E i \in 1..Len(u.st.cfg.accounts) :
                    u.st.cfg.accounts[i].public_key_hex = pk
            THEN [st |-> u.st, res |-> Err("Account with this public key already exists")]
            ELSE store_account(u.st,
                               [id |-> account_id,
                                public_key_hex |-> pk,
                                is_active |-> u.st.cfg.accounts = <<>>],
                               private_key_hex, password, r, io)
        parsed(u, keypair) ==
            IF ~keypair.ok THEN [st |-> u.st, res |-> keypair]
            ELSE derived(u, public_key_hex(keypair.val))
        unlocked(u) ==
            IF ~u.res.ok THEN u
            ELSE parsed(u, keypair_from_hex(private_key_hex))
    IN  unlocked(ensure_unlocked(st, password, r, io))

\* the sequence q without its i-th element
RemoveAt(q, i) == [j \in 1..(Len(q) - 1) |-> IF j < i THEN q[j] ELSE q[j + 1]]

\* a faulty delete_account that never re-points active_account_id
delete_account_stale(st, account_id, password, r, io) ==
    LET saved(sv) ==
            IF ~sv.res.ok THEN [st |-> sv.st, res |-> sv.res]
            ELSE [st |-> sv.st, res |-> Ok(TRUE)]
        key_removed(k) ==
            IF ~k.res.ok THEN [st |-> k.st, res |-> k.res]
            ELSE saved(save_accounts_config(k.st, io))
        at(u, account_index) ==
            key_removed(remove_private_key_from_keystore(
                [u.st EXCEPT !.cfg.accounts = RemoveAt(@, account_index)],
                account_id, password, r, io))
        position(u, found) ==
            IF found = {} THEN [st |-> u.st, res |-> Err("Account not found")]
            ELSE at(u, CHOOSE i \in found : \A j \in found : i <= j)
        unlocked(u) ==
            IF ~u.res.ok THEN u
            ELSE position(u, {i \in 1..Len(u.st.cfg.accounts) :
                                u.st.cfg.accounts[i].id = account_id})
    IN  unlocked(ensure_unlocked(st, password, r, io))

\* AccountManager::delete_account
delete_account(st, account_id, password, r, io) ==
    LET saved(sv) ==
            IF ~sv.res.ok THEN [st |-> sv.st, res |-> sv.res]
            ELSE [st |-> sv.st, res |-> Ok(TRUE)]
        promoted(kst, was_active) ==
            IF was_active
            THEN [kst EXCEPT !.cfg.active_account_id =
                    IF kst.cfg.accounts = <<>> THEN None
                    ELSE Some(kst.cfg.accounts[1].id)]
            ELSE kst
        key_removed(k, was_active) ==
            IF ~k.res.ok THEN [st |-> k.st, res |-> k.res]
            ELSE saved(save_accounts_config(promoted(k.st, was_active), io))
        at(u, account_index) ==
            key_removed(remove_private_key_from_keystore(
                            [u.st EXCEPT !.cfg.accounts = RemoveAt(@, account_index)],
                            account_id, password, r, io),
                        u.st.cfg.active_account_id = Some(account_id))
        position(u, found) ==
            IF found = {} THEN [st |-> u.st, res |-> Err("Account not found")]
            ELSE at(u, CHOOSE i \in found : \A j \in found : i <= j)
        unlocked(u) ==
            IF ~u.res.ok THEN u
            ELSE position(u, {i \in 1..Len(u.st.cfg.accounts) :
                                u.st.cfg.accounts[i].id = account_id})
    IN  unlocked(ensure_unlocked(st, password, r, io))

\* a faulty set_active_account that sets the flag of the target and leaves the
\* flags of the other records as they were
set_active_account_keep_flags(st, account_id, io) ==
    LET saved(sv) ==
            IF ~sv.res.ok THEN [st |-> sv.st, res |-> sv.res]
            ELSE [st |-> sv.st, res |-> Ok(TRUE)]
        marked(accounts) ==
            [st EXCEPT
                !.cfg.accounts =
                    [i \in 1..Len(accounts) |->
                        IF accounts[i].id = account_id
                        THEN [accounts[i] EXCEPT !.is_active = TRUE]
                        ELSE accounts[i]],
                !.cfg.active_account_id = Some(account_id)]
    IN  IF ~\E i \in 1..Len(st.cfg.accounts) : st.cfg.accounts[i].id = account_id
        THEN [st |-> st, res |-> Err("Account not found")]
        ELSE saved(save_accounts_config(marked(st.cfg.accounts), io))

\* a faulty set_active_account that refuses to work on a locked store
set_active_account_unlocked_only(st, account_id, io) ==
    LET saved(sv) ==
            IF ~sv.res.ok THEN [st |-> sv.st, res |-> sv.res]
            ELSE [st |-> sv.st, res |-> Ok(TRUE)]
        marked(accounts) ==
            [st EXCEPT
                !.cfg.accounts =
                    [i \in 1..Len(accounts) |->
                        [accounts[i] EXCEPT !.is_active = (accounts[i].id = account_id)]],
                !.cfg.active_account_id = Some(account_id)]
    IN  IF ~st.keys.some THEN [st |-> st, res |-> Err("Keystore is locked")]
        ELSE IF ~\E i \in 1..Len(st.cfg.accounts) : st.cfg.accounts[i].id = account_id
            THEN [st |-> st, res |-> Err("Account not found")]
        ELSE saved(save_accounts_config(marked(st.cfg.accounts), io))

\* AccountManager::set_active_account
set_active_account(st, account_id, io) ==
    LET saved(sv) ==
            IF ~sv.res.ok THEN [st |-> sv.st, res |-> sv.res]
            ELSE [st |-> sv.st, res |-> Ok(TRUE)]
        marked(accounts) ==
            [st EXCEPT
                !.cfg.accounts =
                    [i \in 1..Len(accounts) |->
                        [accounts[i] EXCEPT !.is_active = (accounts[i].id = account_id)]],
                !.cfg.active_account_id = Some(account_id)]
    IN  IF ~\E i \in 1..Len(st.cfg.accounts) : st.cfg.accounts[i].id = account_id
            THEN [st |-> st, res |-> Err("Account not found")]
        ELSE saved(save_accounts_config(marked(st.cfg.accounts), io))

\* a faulty get_account that looks the record up before it looks at the lock
get_account_lookup_first(st, account_id) ==
    LET with_key(info, keypair) ==
            IF ~keypair.ok THEN keypair
            ELSE Ok(Some([info |-> info, keypair |-> keypair.val]))
        found_at(found) ==
            IF found = {} THEN Ok(None)
            ELSE IF ~st.keys.some THEN Err("Keystore is locked")
            ELSE IF account_id \notin DOMAIN st.keys.v THEN Ok(None)
            ELSE with_key(st.cfg.accounts[CHOOSE i \in found : \A j \in found : i <= j],
                          keypair_from_hex(st.keys.v[account_id]))
    IN  found_at({i \in 1..Len(st.cfg.accounts) : st.cfg.accounts[i].id = account_id})

\* AccountManager::get_account
get_account(st, account_id) ==
    LET with_key(info, keypair) ==
            IF ~keypair.ok THEN keypair
            ELSE Ok(Some([info |-> info, keypair |-> keypair.val]))
        found_at(found) ==
            IF found = {} THEN Ok(None)
            ELSE IF account_id \notin DOMAIN st.keys.v THEN Ok(None)
            ELSE with_key(st.cfg.accounts[CHOOSE i \in found : \A j \in found : i <= j],
                          keypair_from_hex(st.keys.v[account_id]))
    IN  IF ~st.keys.some THEN Err("Keystore is locked")
        ELSE found_at({i \in 1..Len(st.cfg.accounts) :
                        st.cfg.accounts[i].id = account_id})

\* AccountManager::get_active_account
get_active_account(st) ==
    LET with_key(info, keypair) ==
            IF ~keypair.ok THEN keypair
            ELSE Ok(Some([info |-> info, keypair |-> keypair.val]))
        found_at(active_id, found) ==
            IF found = {} THEN Err("Active account not found in config")
            ELSE IF active_id \notin DOMAIN st.keys.v
                THEN Err("Private key not found for active account")
            ELSE with_key(st.cfg.accounts[CHOOSE i \in found : \A j \in found : i <= j],
                          keypair_from_hex(st.keys.v[active_id]))
        active(active_id) ==
            found_at(active_id, {i \in 1..Len(st.cfg.accounts) :
                                    st.cfg.accounts[i].id = active_id})
    IN  IF ~st.keys.some THEN Err("Keystore is locked")
        ELSE IF ~st.cfg.active_account_id.some THEN Ok(None)
        ELSE active(st.cfg.active_account_id.v)

\* AccountManager::list_accounts
list_accounts(st) == st.cfg.accounts

\* AccountManager::new on a directory that holds the files of st:
\* load_accounts_config reads accounts.json, the keystore stays locked
reopened(st) == [st EXCEPT !.cfg = st.cfgf, !.keys = None]

\* ------------------------------------------------------------------------
\* The relay protocol (src/src/commands/post.rs, src/src/connection.rs,
\* src/tests/mock_relay.rs)
\*
\* A serde_json::Value is [t |-> "arr", v |-> a sequence of values],
\* [t |-> "str", v |-> a string], [t |-> "bool", v |-> a boolean],
\* [t |-> "num", v |-> a number] or [t |-> "obj", v |-> a record of values].
\* A websocket message is [kind |-> "text", json |-> Some(value)] for a text
\* that parses as JSON, [kind |-> "text", json |-> None] for one that does not,
\* or [kind |-> k] for k in "close", "binary", "ping", "pong", "frame".
\* ------------------------------------------------------------------------
JArr(a) == [t |-> "arr", v |-> a]

JStr(x) == [t |-> "str", v |-> x]

JBool(b) == [t |-> "bool", v |-> b]

JNum(n) == [t |-> "num", v |-> n]

JObj(o) == [t |-> "obj", v |-> o]

\* Value::as_array, Value::as_str, Value::as_bool
as_array(v) == IF v.t = "arr" THEN Some(v.v) ELSE None

as_str(v) == IF v.t = "str" THEN Some(v.v) ELSE None

as_bool(v) == IF v.t = "bool" THEN Some(v.v) ELSE None

\* Option::unwrap_or
unwrap_or(o, x) == IF o.some THEN o.v ELSE x

\* Message::Text of serde_json::to_string of a value
TextOf(v) == [kind |-> "text", json |-> Some(v)]

\* the strings of the protocol, as their characters
EVENT_TAG == <<69, 86, 69, 78, 84>>

OK_TAG == <<79, 75>>

NOTICE_TAG == <<78, 79, 84, 73, 67, 69>>

REQ_TAG == <<82, 69, 81>>

CLOSE_TAG == <<67, 76, 79, 83, 69>>

EOSE_TAG == <<69, 79, 83, 69>>

CLOSED_TAG == <<67, 76, 79, 83, 69, 68>>

AUTH_TAG == <<65, 85, 84, 72>>

UNKNOWN_ID == <<117, 110, 107, 110, 111, 119, 110>>

SUB_ID == <<115, 117, 98>>

\* the text a relay adds for the reader; no code looks into it
HUMAN_TEXT == <<46, 46, 46>>

\* NostrEvent::to_json_value: the object of the seven fields
to_json_value(e) ==
    JObj([id |-> JStr(e.id), pubkey |-> JStr(e.pubkey),
          created_at |-> JNum(e.created_at), kind |-> JNum(e.kind),
          tags |-> JArr([i \in 1..Len(e.tags) |->
                            JArr([j \in 1..Len(e.tags[i]) |-> JStr(e.tags[i][j])])]),
          content |-> JStr(e.content), sig |-> JStr(e.sig)])

\* the tags of an event object are an array of arrays of strings
TagsParse(v) ==
    /\ v.t = "arr"
    /\ \A i \in 1..Len(v.v) :
        /\ v.v[i].t = "arr"
        /\ \A j \in 1..Len(v.v[i].v) : v.v[i].v[j].t = "str"

\* serde_json::from_value::<NostrEvent>: every field is there with its type
event_from_value(v) ==
    IF v.t # "obj" THEN Err("invalid type")
    ELSE IF {"id", "pubkey", "created_at", "kind", "tags", "content", "sig"}
                \ DOMAIN v.v # {}
        THEN Err("missing field")
    ELSE IF \/ v.v.id.t # "str" \/ v.v.pubkey.t # "str" \/ v.v.content.t # "str"
            \/ v.v.sig.t # "str" \/ v.v.created_at.t # "num" \/ v.v.kind.t # "num"
            \/ ~TagsParse(v.v.tags)
        THEN Err("invalid type")
    ELSE IF v.v.kind.v >= 65536 THEN Err("invalid value")
    ELSE Ok([id |-> v.v.id.v, pubkey |-> v.v.pubkey.v,
             created_at |-> v.v.created_at.v, kind |-> v.v.kind.v,
             tags |-> [i \in 1..Len(v.v.tags.v) |->
                        [j \in 1..Len(v.v.tags.v[i].v) |-> v.v.tags.v[i].v[j].v]],
             content |-> v.v.content.v, sig |-> v.v.sig.v])

\* the relay URLs given to a RelayManager, as Url::parse sees them
RelayUrls ==
    {[parses |-> TRUE, scheme |-> "ws"], [parses |-> TRUE, scheme |-> "wss"],
     [parses |-> TRUE, scheme |-> "http"], [parses |-> FALSE, scheme |-> ""]}

\* RelayManager::new: an empty map; the status of a URL is None while the map
\* has no entry for it
RelayManager_new == [url \in RelayUrls |-> None]

\* RelayManager::add_relay: the URL parses and its scheme is ws or wss
add_relay(registry, url) ==
    IF ~url.parses THEN [st |-> registry, res |-> Err("Invalid relay URL")]
    ELSE IF url.scheme # "ws" /\ url.scheme # "wss"
        THEN [st |-> registry, res |-> Err("Invalid relay URL scheme")]
    ELSE [st |-> [registry EXCEPT ![url] = Some("Disconnected")], res |-> Ok(TRUE)]

\* a faulty connect_relay that records no failure
connect_relay_forgetful(registry, url, net) ==
    LET connecting == [registry EXCEPT ![url] = Some("Connecting")]
    IN  IF net = "refused"
            THEN [st |-> connecting, res |-> Err("Failed to connect to relay")]
            ELSE [st |-> [connecting EXCEPT ![url] = Some("Connected")],
                  res |-> Ok(TRUE)]

\* RelayManager::connect_relay; net tells whether connect_async succeeds
connect_relay(registry, url, net) ==
    LET connecting == [registry EXCEPT ![url] = Some("Connecting")]
    IN  IF net = "refused"
            THEN [st |-> [connecting EXCEPT ![url] = Some("Failed")],
                  res |-> Err("Failed to connect to relay")]
            ELSE [st |-> [connecting EXCEPT ![url] = Some("Connected")],
                  res |-> Ok(TRUE)]

\* RelayManager::get_relay_status
get_relay_status(registry, url) == registry[url]

\* RelayManager::connected_relays, as the set of the URLs of the Vec it returns
connected_relays(registry) ==
    {url \in DOMAIN registry : registry[url] = Some("Connected")}

\* a faulty handle_relay_response that does not compare the event id
handle_relay_response_any_id(response, expected_event_id) ==
    IF ~as_array(response).some THEN Err("Response is not a JSON array")
    ELSE IF Len(response.v) = 0 THEN Err("Empty response from relay")
    ELSE IF ~as_str(response.v[1]).some THEN Err("Invalid response format")
    ELSE IF response.v[1].v = OK_TAG
        THEN IF Len(response.v) < 4 THEN Err("Invalid OK response format")
             ELSE IF unwrap_or(as_bool(response.v[3]), FALSE) THEN Ok(TRUE)
             ELSE Err("Relay rejected event")
    ELSE IF response.v[1].v = NOTICE_TAG THEN Err("Relay notice")
    ELSE Err("Unexpected response type")

\* PostCommand::handle_relay_response
handle_relay_response(response, expected_event_id) ==
    IF ~as_array(response).some THEN Err("Response is not a JSON array")
    ELSE IF Len(response.v) = 0 THEN Err("Empty response from relay")
    ELSE IF ~as_str(response.v[1]).some THEN Err("Invalid response format")
    ELSE IF response.v[1].v = OK_TAG
        THEN IF Len(response.v) < 4 THEN Err("Invalid OK response format")
             ELSE IF unwrap_or(as_str(response.v[2]), <<>>) # expected_event_id
                THEN Err("Event ID mismatch")
             ELSE IF unwrap_or(as_bool(response.v[3]), FALSE) THEN Ok(TRUE)
             ELSE Err("Relay rejected event")
    ELSE IF response.v[1].v = NOTICE_TAG THEN Err("Relay notice")
    ELSE Err("Unexpected response type")

\* PostCommand::execute up to the send: the keypair is loaded, the text note is
\* made and signed at time t with nonce k, the relay is added and connected,
\* the EVENT message is sent
execute_send(cmd, t, k, net) ==
    LET sent(e) ==
            IF ~add_relay(RelayManager_new, cmd.relay_url).res.ok
                THEN Err("Invalid relay URL")
            ELSE IF ~connect_relay(add_relay(RelayManager_new, cmd.relay_url).st,
                                   cmd.relay_url, net).res.ok
                THEN Err("Failed to connect to relay")
            ELSE IF net = "send_failed" THEN Err("Failed to send event to relay")
            ELSE Ok([event |-> e,
                     message |-> TextOf(JArr(<<JStr(EVENT_TAG), to_json_value(e)>>))])
        noted(text_note_event) ==
            IF ~text_note_event.ok THEN Err("Failed to create event")
            ELSE sent(text_note_event.val)
        loaded(author_keypair) ==
            IF ~author_keypair.ok THEN Err("Failed to load keypair")
            ELSE noted(sign(UnsignedEvent(public_key_hex(author_keypair.val), t, 1,
                                          <<>>, cmd.message_content),
                            author_keypair.val, k))
    IN  loaded(keypair_from_hex(cmd.author_private_key_hex))

\* PostCommand::execute from the wait on: relay_response is what
\* timeout(.., relay_connection.next()) yields, "timeout" when nothing came
execute_receive(relay_response, event_id) ==
    LET handled(h) == IF ~h.ok THEN h ELSE Ok(event_id)
    IN  IF relay_response.kind = "timeout"
            THEN Err("Timeout waiting for relay response")
        ELSE IF relay_response.kind = "text"
            THEN IF ~relay_response.json.some
                    THEN Err("Failed to parse relay response")
                 ELSE handled(handle_relay_response(relay_response.json.v, event_id))
        ELSE IF relay_response.kind = "close"
            THEN Err("Relay closed connection before responding")
        ELSE IF relay_response.kind = "binary"
            THEN Err("Received unexpected binary message from relay")
        ELSE IF relay_response.kind \in {"ping", "pong"}
            THEN Err("Received ping/pong instead of response")
        ELSE IF relay_response.kind = "frame"
            THEN Err("Received unexpected frame message")
        ELSE IF relay_response.kind = "error"
            THEN Err("WebSocket error while waiting for response")
        ELSE Err("No response received from relay")

\* MockRelay::verify_event_id: the id is the digest of the serialised fields
relay_verify_event_id(event) ==
    IF calculate_id(UnsignedEvent(event.pubkey, event.created_at, event.kind,
                                  event.tags, event.content)) # event.id
        THEN Err("Event ID mismatch")
    ELSE Ok(TRUE)

\* MockRelay::verify_signature: every failure is an error
relay_verify_signature(event) ==
    LET checked(id_bytes, sig_bytes, pubkey_bytes) ==
            IF ~id_bytes.ok THEN Err(id_bytes.err)
            ELSE IF ~sig_bytes.ok THEN Err(sig_bytes.err)
            ELSE IF ~pubkey_bytes.ok THEN Err(pubkey_bytes.err)
            ELSE IF Len(sig_bytes.val) # SIGNATURE_SIZE
                THEN Err("Invalid signature length")
            ELSE IF Len(pubkey_bytes.val) # PUBLIC_KEY_SIZE
                THEN Err("Invalid public key length")
            ELSE IF ~ValidPoint(BytesToNat(pubkey_bytes.val))
                THEN Err("InvalidPublicKey")
            ELSE IF Len(id_bytes.val) # MESSAGE_SIZE THEN Err("Invalid message length")
            ELSE IF ~verify_schnorr(sig_bytes.val, id_bytes.val,
                                    BytesToNat(pubkey_bytes.val))
                THEN Err("Signature verification failed")
            ELSE Ok(TRUE)
    IN  checked(hex_decode(event.id), hex_decode(event.sig), hex_decode(event.pubkey))

\* a faulty validate_event that does not verify the signature
validate_event_unsigned(event) ==
    IF Len(event.id) = 0 THEN Err("Event ID is empty")
    ELSE IF Len(event.pubkey) = 0 THEN Err("Public key is empty")
    ELSE IF Len(event.sig) = 0 THEN Err("Signature is empty")
    ELSE IF Len(event.id) # 64 THEN Err("Invalid event ID length")
    ELSE IF Len(event.pubkey) # 64 THEN Err("Invalid public key length")
    ELSE IF Len(event.sig) # 128 THEN Err("Invalid signature length")
    ELSE IF ~relay_verify_event_id(event).ok THEN Err("Event ID verification failed")
    ELSE Ok(TRUE)

\* MockRelay::validate_event
validate_event(event) ==
    IF Len(event.id) = 0 THEN Err("Event ID is empty")
    ELSE IF Len(event.pubkey) = 0 THEN Err("Public key is empty")
    ELSE IF Len(event.sig) = 0 THEN Err("Signature is empty")
    ELSE IF Len(event.id) # 64 THEN Err("Invalid event ID length")
    ELSE IF Len(event.pubkey) # 64 THEN Err("Invalid public key length")
    ELSE IF Len(event.sig) # 128 THEN Err("Invalid signature length")
    ELSE IF ~relay_verify_event_id(event).ok THEN Err("Event ID verification failed")
    ELSE IF ~relay_verify_signature(event).ok
        THEN Err("Signature verification failed")
    ELSE Ok(TRUE)

\* MockRelay::handle_event: the list of received events after the call and the
\* reply, or the error of the deserialisation
handle_event(received, event_data) ==
    LET validated(event, validation_result) ==
            IF validation_result.ok
                THEN [received |-> Append(received, event),
                      res |-> Ok(Some(JArr(<<JStr(OK_TAG), JStr(event.id),
                                             JBool(TRUE), JStr(HUMAN_TEXT)>>)))]
            ELSE [received |-> received,
                  res |-> Ok(Some(JArr(<<JStr(OK_TAG), JStr(event.id),
                                         JBool(FALSE), JStr(HUMAN_TEXT)>>)))]
        parsed(event) ==
            IF ~event.ok THEN [received |-> received, res |-> Err(event.err)]
            ELSE validated(event.val, validate_event(event.val))
    IN  parsed(event_from_value(event_data))

\* MockRelay::process_message
process_message(received, message) ==
    LET quiet == [received |-> received, res |-> Ok(None)]
        say(v) == [received |-> received, res |-> Ok(Some(v))]
        typed(array, type) ==
            IF type = Some(EVENT_TAG)
                THEN IF Len(array) >= 2 THEN handle_event(received, array[2])
                     ELSE quiet
            ELSE IF type = Some(REQ_TAG)
                THEN IF Len(array) >= 3
                        THEN say(JArr(<<JStr(EOSE_TAG),
                                        JStr(unwrap_or(as_str(array[2]), UNKNOWN_ID))>>))
                     ELSE quiet
            ELSE IF type = Some(CLOSE_TAG)
                THEN IF Len(array) >= 2
                        THEN say(JArr(<<JStr(CLOSED_TAG),
                                        JStr(unwrap_or(as_str(array[2]), UNKNOWN_ID)),
                                        JStr(<<>>)>>))
                     ELSE quiet
            ELSE say(JArr(<<JStr(NOTICE_TAG), JStr(HUMAN_TEXT)>>))
    IN  IF ~message.json.some THEN [received |-> received, res |-> Err("parse error")]
        ELSE IF ~as_array(message.json.v).some THEN quiet
        ELSE IF Len(message.json.v.v) = 0 THEN quiet
        ELSE typed(message.json.v.v, as_str(message.json.v.v[1]))

\* one turn of the loop of MockRelay::handle_connection: the list of received
\* events after it, the message sent back if any, and whether the loop goes on
handle_connection(received, msg) ==
    LET processed(pm) ==
            IF ~pm.res.ok
                THEN [received |-> pm.received,
                      reply |-> Some(TextOf(JArr(<<JStr(NOTICE_TAG), JStr(HUMAN_TEXT)>>))),
                      open |-> TRUE]
            ELSE IF pm.res.val.some
                THEN [received |-> pm.received,
                      reply |-> Some(TextOf(pm.res.val.v)), open |-> TRUE]
            ELSE [received |-> pm.received, reply |-> None, open |-> TRUE]
    IN  IF msg.kind = "text" THEN processed(process_message(received, msg))
        ELSE IF msg.kind = "close"
            THEN [received |-> received, reply |-> None, open |-> FALSE]
        ELSE [received |-> received, reply |-> None, open |-> TRUE]

\* ------------------------------------------------------------------------
\* App (src/src/tui/app.rs)
\*
\* An App is the record of its fields; account_manager is an AccountManager as
\* above, with the files of its directory.  status_message is written and never
\* read by the handlers, and feed_items never changes: they are left out, and
\* FEED_ITEMS is the length of feed_items.  A key is [code, c, ctrl]: the KeyCode,
\* the character of a KeyCode::Char, and whether CONTROL is among the modifiers.
\* ------------------------------------------------------------------------
FEED_ITEMS == 1

\* KeyCode::Char(c)
Char(c) == [code |-> "Char", c |-> c, ctrl |-> FALSE]

\* a KeyCode that carries no character
Key(code) == [code |-> code, c |-> 0, ctrl |-> FALSE]

\* a key pressed with CONTROL
Ctrl(key) == [key EXCEPT !.ctrl = TRUE]

\* whether the key is KeyCode::Char of this character
IsChar(key, c) == key.code = "Char" /\ key.c = c

\* usize::saturating_sub
saturating_sub(a, b) == IF a >= b THEN a - b ELSE 0

\* String::pop
pop(text) == IF text = <<>> THEN text ELSE SubSeq(text, 1, Len(text) - 1)

\* str::trim().is_empty(): every character is white space
trim_is_empty(text) == \A i \in 1..Len(text) : text[i] \in {9, 10, 11, 12, 13, 32}

\* App::new
App_new ==
    [current_view |-> "Feed", should_quit |-> FALSE, account_manager |-> new_manager,
     keystore_unlocked |-> FALSE, password_input |-> <<>>,
     password_prompt_active |-> FALSE, selected_index |-> 0, compose_text |-> <<>>,
     compose_relay_selection |-> <<TRUE, TRUE, FALSE>>, compose_focus |-> "Text"]

\* a faulty handle_global_shortcuts that opens the compose view on 'n' whether
\* the keystore is unlocked or not
handle_global_shortcuts_open(a, key) ==
    IF IsChar(key, 113) THEN [st |-> [a EXCEPT !.should_quit = TRUE], res |-> Ok(TRUE)]
    ELSE IF IsChar(key, 99) /\ key.ctrl
        THEN [st |-> [a EXCEPT !.should_quit = TRUE], res |-> Ok(TRUE)]
    ELSE IF IsChar(key, 63)
        THEN [st |-> [a EXCEPT !.current_view = "HelpModal"], res |-> Ok(FALSE)]
    ELSE IF IsChar(key, 97)
        THEN [st |-> [a EXCEPT !.current_view = "AccountModal"], res |-> Ok(FALSE)]
    ELSE IF IsChar(key, 110)
        THEN [st |-> [a EXCEPT !.current_view = "ComposeModal",
                               !.compose_text = <<>>, !.compose_focus = "Text"],
              res |-> Ok(FALSE)]
    ELSE IF IsChar(key, 114) THEN [st |-> a, res |-> Ok(FALSE)]
    ELSE IF key.code = "Esc"
        THEN [st |-> IF a.current_view # "Feed"
                        THEN [a EXCEPT !.current_view = "Feed",
                                       !.password_prompt_active = FALSE,
                                       !.password_input = <<>>]
                        ELSE a,
              res |-> Ok(FALSE)]
    ELSE [st |-> a, res |-> Ok(FALSE)]

\* App::handle_global_shortcuts: 'q', Ctrl-c, '?', 'a', 'n', 'r' (refresh_view
\* writes the status message alone) and Esc; Ok(true) asks for the exit
handle_global_shortcuts(a, key) ==
    IF IsChar(key, 113) THEN [st |-> [a EXCEPT !.should_quit = TRUE], res |-> Ok(TRUE)]
    ELSE IF IsChar(key, 99) /\ key.ctrl
        THEN [st |-> [a EXCEPT !.should_quit = TRUE], res |-> Ok(TRUE)]
    ELSE IF IsChar(key, 63)
        THEN [st |-> [a EXCEPT !.current_view = "HelpModal"], res |-> Ok(FALSE)]
    ELSE IF IsChar(key, 97)
        THEN [st |-> [a EXCEPT !.current_view = "AccountModal"], res |-> Ok(FALSE)]
    ELSE IF IsChar(key, 110)
        THEN [st |-> IF a.keystore_unlocked
                        THEN [a EXCEPT !.current_view = "ComposeModal",
                                       !.compose_text = <<>>,
                                       !.compose_focus = "Text"]
                        ELSE a,
              res |-> Ok(FALSE)]
    ELSE IF IsChar(key, 114) THEN [st |-> a, res |-> Ok(FALSE)]
    ELSE IF key.code = "Esc"
        THEN [st |-> IF a.current_view # "Feed"
                        THEN [a EXCEPT !.current_view = "Feed",
                                       !.password_prompt_active = FALSE,
                                       !.password_input = <<>>]
                        ELSE a,
              res |-> Ok(FALSE)]
    ELSE [st |-> a, res |-> Ok(FALSE)]

\* App::handle_feed_input
handle_feed_input(a, key) ==
    IF key.code = "Up" \/ IsChar(key, 107)
        THEN IF a.selected_index > 0 THEN [a EXCEPT !.selected_index = @ - 1] ELSE a
    ELSE IF key.code = "Down" \/ IsChar(key, 106)
        THEN IF a.selected_index < saturating_sub(FEED_ITEMS, 1)
                THEN [a EXCEPT !.selected_index = @ + 1] ELSE a
    ELSE IF key.code = "Home" \/ IsChar(key, 103) THEN [a EXCEPT !.selected_index = 0]
    ELSE IF key.code = "End" \/ IsChar(key, 71)
        THEN [a EXCEPT !.selected_index = saturating_sub(FEED_ITEMS, 1)]
    ELSE a

\* a faulty handle_password_input that takes the keystore for unlocked after
\* Enter whatever unlock_keystore returns
handle_password_input_trusting(a, key, r, io) ==
    IF key.code = "Enter"
        THEN LET unlocked(out) ==
                    [a EXCEPT !.account_manager = out.st,
                              !.keystore_unlocked = TRUE,
                              !.password_prompt_active = FALSE,
                              !.password_input = <<>>]
             IN  unlocked(unlock_keystore(a.account_manager, a.password_input, r, io))
    ELSE IF key.code = "Char" THEN [a EXCEPT !.password_input = Append(@, key.c)]
    ELSE IF key.code = "Backspace" THEN [a EXCEPT !.password_input = pop(@)]
    ELSE IF key.code = "Esc"
        THEN [a EXCEPT !.password_prompt_active = FALSE, !.password_input = <<>>]
    ELSE a

\* App::handle_password_input: Enter calls unlock_keystore with the input
handle_password_input(a, key, r, io) ==
    IF key.code = "Enter"
        THEN LET unlocked(out) ==
                    IF out.res.ok
                        THEN [a EXCEPT !.account_manager = out.st,
                                       !.keystore_unlocked = TRUE,
                                       !.password_prompt_active = FALSE,
                                       !.password_input = <<>>]
                        ELSE [a EXCEPT !.account_manager = out.st,
                                       !.password_input = <<>>]
             IN  unlocked(unlock_keystore(a.account_manager, a.password_input, r, io))
    ELSE IF key.code = "Char" THEN [a EXCEPT !.password_input = Append(@, key.c)]
    ELSE IF key.code = "Backspace" THEN [a EXCEPT !.password_input = pop(@)]
    ELSE IF key.code = "Esc"
        THEN [a EXCEPT !.password_prompt_active = FALSE, !.password_input = <<>>]
    ELSE a

\* App::handle_account_modal_input: 'u' opens the prompt, 'l' locks, 'c' writes
\* the status message alone
handle_account_modal_input(a, key, r, io) ==
    IF a.password_prompt_active THEN handle_password_input(a, key, r, io)
    ELSE IF IsChar(key, 117)
        THEN [a EXCEPT !.password_prompt_active = TRUE, !.password_input = <<>>]
    ELSE IF IsChar(key, 108)
        THEN [a EXCEPT !.account_manager = lock_keystore(@),
                       !.keystore_unlocked = FALSE]
    ELSE a

\* App::publish_post
publish_post(a) ==
    IF trim_is_empty(a.compose_text) THEN a
    ELSE IF \A i \in 1..Len(a.compose_relay_selection) : ~a.compose_relay_selection[i]
        THEN a
    ELSE [a EXCEPT !.compose_text = <<>>, !.current_view = "Feed"]

\* App::handle_compose_modal_input
handle_compose_modal_input(a, key) ==
    IF a.compose_focus = "Text"
        THEN IF key.code = "Tab" THEN [a EXCEPT !.compose_focus = "RelayList"]
             ELSE IF key.code = "Enter" /\ key.ctrl THEN publish_post(a)
             ELSE IF key.code = "Enter" THEN [a EXCEPT !.compose_text = Append(@, 10)]
             ELSE IF key.code = "Char" THEN [a EXCEPT !.compose_text = Append(@, key.c)]
             ELSE IF key.code = "Backspace" THEN [a EXCEPT !.compose_text = pop(@)]
             ELSE a
    ELSE IF key.code = "Tab" THEN [a EXCEPT !.compose_focus = "Text"]
    ELSE IF key.code = "Up" \/ IsChar(key, 107)
        THEN IF a.selected_index > 0 THEN [a EXCEPT !.selected_index = @ - 1] ELSE a
    ELSE IF key.code = "Down" \/ IsChar(key, 106)
        THEN IF a.selected_index < saturating_sub(Len(a.compose_relay_selection), 1)
                THEN [a EXCEPT !.selected_index = @ + 1] ELSE a
    ELSE IF key.code = "Enter" \/ IsChar(key, 32)
        THEN IF a.selected_index < Len(a.compose_relay_selection)
                THEN [a EXCEPT !.compose_relay_selection[a.selected_index + 1] = ~@]
                ELSE a
    ELSE a

\* App::handle_help_modal_input
handle_help_modal_input(a, key) == a

\* App::handle_input: the global shortcuts first, then the handler of the view
\* the App is in after them
handle_input(a, key, r, io) ==
    LET viewed(b) ==
            IF b.current_view = "Feed" THEN handle_feed_input(b, key)
            ELSE IF b.current_view = "AccountModal"
                THEN handle_account_modal_input(b, key, r, io)
            ELSE IF b.current_view = "ComposeModal"
                THEN handle_compose_modal_input(b, key)
            ELSE handle_help_modal_input(b, key)
        shortcut(g) ==
            IF g.res.val THEN [st |-> g.st, res |-> Ok(TRUE)]
            ELSE [st |-> viewed(g.st), res |-> Ok(FALSE)]
    IN  shortcut(handle_global_shortcuts(a, key))

\* ------------------------------------------------------------------------
\* State
\* ------------------------------------------------------------------------
VARIABLES
    event,          \* EventCodec: the NostrEvent at hand (its fields are public)
    signed,         \* EventCodec: the event as sign returned it, with its keypair
    verified,       \* EventCodec: the public key and result of the last verify_signature
    sealed,         \* KeystoreCrypto: the key map and password the keystore was made from
    keystore,       \* KeystoreCrypto: the EncryptedKeystore at hand
    opened,         \* KeystoreCrypto: the password and result of the last decrypt_keystore
    accounts_config,    \* AccountManager.accounts_config
    unlocked_keys,      \* AccountManager.unlocked_keys
    keystore_file,      \* the content of keystore.json, None while it does not exist
    config_file,        \* the content of accounts.json
    next_id,            \* the number of account ids handed out so far, plus one
    last,               \* the last AccountManager call: its name, argument and result
    probe,              \* the arguments and the result of the last call of a function
    outbox,             \* PostCommand: the event sent and the message that carries it
    inbox,              \* PostCommand: what relay_connection.next() yields first
    events_received,    \* MockRelay.events_received
    posted,             \* the result PostCommand::execute returned
    relays,             \* RelayManager.relays: the status of each URL, None if it has none
    app                 \* the App: its view, flags and input buffers

eventVars == <<event, signed, verified>>

cryptoVars == <<sealed, keystore, opened>>

storeVars == <<accounts_config, unlocked_keys, keystore_file, config_file, next_id, last>>

pureVars == <<probe>>

relayVars == <<outbox, inbox, events_received, posted>>

registryVars == <<relays>>

appVars == <<app>>

vars == <<event, signed, verified, sealed, keystore, opened,
          accounts_config, unlocked_keys, keystore_file, config_file, next_id, last,
          probe, outbox, inbox, events_received, posted, relays, app>>

\* ------------------------------------------------------------------------
\* Bounds and input domains
\* ------------------------------------------------------------------------
MaxSecret == 2

MaxNonce == 2

MaxTime == 1

MaxKind == 1

BaseTime == 1234567890

\* "hello", "hellp", the empty string and a string with a quote in it
Contents == {<<104, 101, 108, 108, 111>>, <<104, 101, 108, 108, 112>>, <<>>, <<104, 34>>}

\* no tags, and [["t", "test"]]
TagLists == {<<>>, << <<<<116>>, <<116, 101, 115, 116>>>> >>}

Times == {BaseTime + t : t \in 0..MaxTime}

Kinds == 0..MaxKind

Secrets == 1..MaxSecret

Nonces == 1..MaxNonce

MaxKeyId == 2

MaxEntropy == 2

\* what the random generator can yield for one create_keystore
Entropy == 1..MaxEntropy

Passwords == {"pw", "wrong", ""}

\* the passwords given to the account manager
StorePasswords == {"pw", "wrong"}

MaxIds == 2

AccountIds == 1..MaxIds

\* whether the writes of keystore.json fail during a call; the writes of
\* accounts.json are taken to succeed
IO == {"ok", "keystore"}

\* the all-zero key, "xyz", the order of the group as a key, and a key of 31 bytes
InvalidKeys ==
    {hex_encode(NatToBytes(0, SECRET_KEY_SIZE)), <<120, 121, 122>>,
     hex_encode(NatToBytes(Curve.q, SECRET_KEY_SIZE)),
     hex_encode(NatToBytes(1, SECRET_KEY_SIZE - 1))}

\* the keys offered to import_account: two valid ones and the invalid ones
ImportKeys == {secret_key_hex(Keypair(x)) : x \in {1, 2}} \cup InvalidKeys

\* the key maps: some account ids, each with the hex of a secret key
KeyMaps ==
    UNION {[ids -> {secret_key_hex(Keypair(x)) : x \in Secrets}] :
                ids \in SUBSET (1..MaxKeyId)}

\* ------------------------------------------------------------------------
\* EventCodec: operations
\* ------------------------------------------------------------------------
EventIdle ==
    /\ event = None
    /\ signed = None
    /\ verified = None

CryptoIdle ==
    /\ sealed = None
    /\ keystore = None
    /\ opened = None

\* a manager made by AccountManager::new on an empty directory, not yet called
StoreIdle ==
    /\ accounts_config = new_manager.cfg
    /\ unlocked_keys = new_manager.keys
    /\ keystore_file = new_manager.ksf
    /\ config_file = new_manager.cfgf
    /\ next_id = 1
    /\ last = [op |-> "new", ok |-> TRUE, err |-> "", id |-> 0, is_active |-> FALSE,
               password |-> "", key |-> <<>>, ret |-> "", writes |-> new_manager.log]

PureIdle == probe = None

\* the RelayManager as RelayManager::new makes it
RegistryIdle == relays = RelayManager_new

\* the App as App::new makes it
AppIdle == app = App_new

\* no PostCommand has run and the relay has accepted no connection
RelayIdle ==
    /\ outbox = None
    /\ inbox = None
    /\ events_received = <<>>
    /\ posted = None

InitEvent == EventIdle /\ CryptoIdle /\ StoreIdle /\ PureIdle /\ RelayIdle
        /\ RegistryIdle /\ AppIdle

\* NostrEvent::new_text_note and UnsignedEvent::sign with the keypair of secret x
EvSign ==
    /\ ~event.some
    /\ \E x \in Secrets, k \in Nonces, c \in Contents, t \in Times,
       kind \in Kinds, tags \in TagLists :
        LET kp == Keypair(x)
            r == sign(UnsignedEvent(public_key_hex(kp), t, kind, tags, c), kp, k)
        IN  /\ r.ok
            /\ event' = Some(r.val)
            /\ signed' = Some([ev |-> r.val, kp |-> kp])
            /\ verified' = None
            /\ UNCHANGED <<cryptoVars, storeVars, pureVars, relayVars,
                           registryVars, appVars>>

\* a holder of the signed event rewrites one of its public fields and keeps id and sig
EvTamper ==
    /\ event.some
    /\ event.v = signed.v.ev
    /\ \/ \E c \in Contents \ {event.v.content} :
            event' = Some([event.v EXCEPT !.content = c])
       \/ \E t \in Times \ {event.v.created_at} :
            event' = Some([event.v EXCEPT !.created_at = t])
       \/ \E kind \in Kinds \ {event.v.kind} :
            event' = Some([event.v EXCEPT !.kind = kind])
       \/ \E tags \in TagLists \ {event.v.tags} :
            event' = Some([event.v EXCEPT !.tags = tags])
    /\ verified' = None
    /\ UNCHANGED <<signed, cryptoVars, storeVars, pureVars, relayVars,
                   registryVars, appVars>>

\* NostrEvent::verify_signature with the public key of one of the keypairs
EvVerify ==
    /\ event.some
    /\ \E x \in Secrets :
        LET pk == public_key_hex(Keypair(x))
        IN  verified' = Some([pk |-> pk, res |-> verify_signature(event.v, pk)])
    /\ UNCHANGED <<event, signed, cryptoVars, storeVars, pureVars, relayVars,
                   registryVars, appVars>>

NextEvent == EvSign \/ EvTamper \/ EvVerify

SpecEvent == InitEvent /\ [][NextEvent]_vars

\* ------------------------------------------------------------------------
\* Claims: EventCodec
\* ------------------------------------------------------------------------
\* the event at hand is the signed one with content, created_at, tags or kind changed
Tampered ==
    /\ event.some
    /\ event.v.id = signed.v.ev.id
    /\ event.v.sig = signed.v.ev.sig
    /\ event.v.pubkey = signed.v.ev.pubkey
    /\ event.v # signed.v.ev

\* C1: a signed message whose content, created_at, tags or kind was changed while
\* the original id and signature are replayed makes verify return false.
C1_TamperedEventFailsVerify ==
    (verified.some /\ Tampered /\ verified.v.pk = signed.v.ev.pubkey)
        => (verified.v.res.ok /\ verified.v.res.val = FALSE)

\* C2: verify applied to sign(msg, kp) with kp's public key returns true.
C2_SignThenVerify ==
    (verified.some /\ event.v = signed.v.ev
        /\ verified.v.pk = public_key_hex(signed.v.kp))
        => (verified.v.res.ok /\ verified.v.res.val = TRUE)

\* C2 witness: an untouched signed event was verified with its signer's public key
C2_Witness ==
    /\ verified.some
    /\ event.v = signed.v.ev
    /\ verified.v.pk = public_key_hex(signed.v.kp)
    /\ verified.v.res.ok

\* ------------------------------------------------------------------------
\* KeystoreCrypto: operations
\* ------------------------------------------------------------------------
InitCrypto == EventIdle /\ CryptoIdle /\ StoreIdle /\ PureIdle /\ RelayIdle
        /\ RegistryIdle /\ AppIdle

\* create_keystore of a key map under a password
KsSeal ==
    /\ ~keystore.some
    /\ \E m \in KeyMaps, p \in Passwords, r \in Entropy :
        LET k == create_keystore(m, p, r)
        IN  /\ k.ok
            /\ keystore' = Some(k.val)
            /\ sealed' = Some([keys |-> m, password |-> p])
            /\ opened' = None
    /\ UNCHANGED <<eventVars, storeVars, pureVars, relayVars, registryVars, appVars>>

\* decrypt_keystore of the keystore at hand with some password
KsOpen ==
    /\ keystore.some
    /\ \E p \in Passwords :
        opened' = Some([password |-> p,
                        res |-> decrypt_keystore(keystore.v, p),
                        steps |-> decrypt_steps(keystore.v, p)])
    /\ UNCHANGED <<sealed, keystore, eventVars, storeVars, pureVars, relayVars,
                   registryVars, appVars>>

NextCrypto == KsSeal \/ KsOpen

SpecCrypto == InitCrypto /\ [][NextCrypto]_vars

\* ------------------------------------------------------------------------
\* Claims: KeystoreCrypto
\* ------------------------------------------------------------------------
\* C3: open(seal(m, p), p) returns exactly m, the empty map included.
C3_KeystoreRoundTrip ==
    (opened.some /\ opened.v.password = sealed.v.password)
        => (opened.v.res.ok /\ opened.v.res.val = sealed.v.keys)

\* C3 witness: a keystore of two keys was opened with the password that sealed it
C3_Witness ==
    /\ opened.some
    /\ opened.v.password = sealed.v.password
    /\ Cardinality(DOMAIN sealed.v.keys) = 2
    /\ opened.v.res.ok

\* C4: open(seal(m, p1), p2) with p1 # p2 fails with the authentication error, and
\* the password check raises it before any decryption is attempted.
C4_WrongPasswordFailsBeforeDecrypt ==
    (opened.some /\ opened.v.password # sealed.v.password)
        => /\ ~opened.v.res.ok
           /\ ~opened.v.res.panic
           /\ opened.v.res.err = "Invalid password"
           /\ opened.v.steps = <<"verify_password">>

\* C4 witness: a keystore holding a key was opened with another password
C4_Witness ==
    /\ opened.some
    /\ opened.v.password # sealed.v.password
    /\ sealed.v.keys # <<>>
    /\ ~opened.v.res.ok

\* ------------------------------------------------------------------------
\* AccountStore: operations
\* ------------------------------------------------------------------------
Init == EventIdle /\ CryptoIdle /\ StoreIdle /\ PureIdle /\ RelayIdle
        /\ RegistryIdle /\ AppIdle

\* the AccountManager as the state holds it
Manager ==
    [cfg |-> accounts_config, keys |-> unlocked_keys,
     ksf |-> keystore_file, cfgf |-> config_file, log |-> <<>>]

\* the manager after a call
Becomes(st) ==
    /\ accounts_config' = st.cfg
    /\ unlocked_keys' = st.keys
    /\ keystore_file' = st.ksf
    /\ config_file' = st.cfgf

\* what last keeps of a call; the actions add the password and the key given to
\* the call, which are "" and <<>> for a call that takes none, and the accessors
\* add what they return ("none", "identity", "list"); writes are the files the
\* call wrote, in order
Outcome(op, res, id, is_active) ==
    [op |-> op, ok |-> res.ok, err |-> res.err, id |-> id, is_active |-> is_active,
     password |-> "", key |-> <<>>, ret |-> "", writes |-> <<>>]

\* the ids of the records of a configuration
IdsOf(cfg) == {cfg.accounts[i].id : i \in 1..Len(cfg.accounts)}

\* generate_keypair: a secret no record holds (a fresh draw does not collide);
\* the least such scalar stands for every one of them
generate_keypair(st) ==
    CHOOSE x \in 1..(Curve.q - 1) :
        /\ \A i \in 1..Len(st.cfg.accounts) :
                st.cfg.accounts[i].public_key_hex # public_key_hex(Keypair(x))
        /\ \A y \in 1..(x - 1) :
                \E i \in 1..Len(st.cfg.accounts) :
                    st.cfg.accounts[i].public_key_hex = public_key_hex(Keypair(y))

\* the salt and nonce drawn during a call: fresh, so not those of the file at hand
fresh_entropy(st) ==
    IF st.ksf.some THEN 3 - st.ksf.v.salt.n ELSE 1

Unlock ==
    \E p \in StorePasswords, io \in IO :
        \E out \in {unlock_keystore(Manager, p, fresh_entropy(Manager), io)} :
            /\ Becomes(out.st)
            /\ last' = [Outcome("unlock", out.res, 0, FALSE)
                        EXCEPT !.password = p, !.writes = out.st.log]
            /\ UNCHANGED <<next_id, eventVars, cryptoVars, pureVars, relayVars,
                           registryVars, appVars>>

Lock ==
    /\ Becomes(lock_keystore(Manager))
    /\ last' = Outcome("lock", Ok(TRUE), 0, FALSE)
    /\ UNCHANGED <<next_id, eventVars, cryptoVars, pureVars, relayVars,
                   registryVars, appVars>>

CreateAccount ==
    /\ next_id <= MaxIds
    /\ \E p \in StorePasswords, io \in IO :
        \E out \in {create_account(Manager, p, generate_keypair(Manager), next_id,
                                  fresh_entropy(Manager), io)} :
            /\ Becomes(out.st)
            /\ last' = [Outcome("create", out.res, next_id,
                               out.res.ok /\ out.res.val.is_active)
                        EXCEPT !.password = p, !.writes = out.st.log]
            /\ next_id' = IF next_id \in IdsOf(out.st.cfg) THEN next_id + 1 ELSE next_id
            /\ UNCHANGED <<eventVars, cryptoVars, pureVars, relayVars,
                           registryVars, appVars>>

ImportAccount ==
    /\ next_id <= MaxIds
    /\ \E key \in ImportKeys, p \in StorePasswords, io \in IO :
        \E out \in {import_account(Manager, key, p, next_id, fresh_entropy(Manager), io)} :
            /\ Becomes(out.st)
            /\ last' = [Outcome("import", out.res, next_id,
                               out.res.ok /\ out.res.val.is_active)
                        EXCEPT !.password = p, !.key = key, !.writes = out.st.log]
            /\ next_id' = IF next_id \in IdsOf(out.st.cfg) THEN next_id + 1 ELSE next_id
            /\ UNCHANGED <<eventVars, cryptoVars, pureVars, relayVars,
                           registryVars, appVars>>

DeleteAccount ==
    \E id \in AccountIds, p \in StorePasswords, io \in IO :
        \E out \in {delete_account(Manager, id, p, fresh_entropy(Manager), io)} :
            /\ Becomes(out.st)
            /\ last' = [Outcome("delete", out.res, id, FALSE)
                        EXCEPT !.password = p, !.writes = out.st.log]
            /\ UNCHANGED <<next_id, eventVars, cryptoVars, pureVars, relayVars,
                           registryVars, appVars>>

SetActive ==
    \E id \in AccountIds :
        \E out \in {set_active_account(Manager, id, "ok")} :
            /\ Becomes(out.st)
            /\ last' = [Outcome("set_active", out.res, id, FALSE)
                        EXCEPT !.writes = out.st.log]
            /\ UNCHANGED <<next_id, eventVars, cryptoVars, pureVars, relayVars,
                           registryVars, appVars>>

Next == Unlock \/ Lock \/ CreateAccount \/ ImportAccount \/ DeleteAccount \/ SetActive

Spec == Init /\ [][Next]_vars

\* ------------------------------------------------------------------------
\* Claims: AccountStore
\* ------------------------------------------------------------------------
Mutating == {"create", "import", "delete", "set_active"}

\* the account ids the keystore file holds keys for
FileKeyIds(f) ==
    IF f.some
        THEN {f.v.encrypted_data.plaintext.entries[i][1] :
                i \in 1..Len(f.v.encrypted_data.plaintext.entries)}
        ELSE {}

\* C5: whenever the account list is non-empty, active_account_id references a
\* record of the list, whatever calls succeeded or failed before.
C5_ActiveIdInList ==
    accounts_config.accounts # <<>>
        => /\ accounts_config.active_account_id.some
           /\ accounts_config.active_account_id.v \in IdsOf(accounts_config)

\* C6: at most one record has is_active = true, and when there is one and
\* active_account_id is set, its id is active_account_id.
C6_OneActiveRecord ==
    LET accounts == accounts_config.accounts
        flagged == {i \in 1..Len(accounts) : accounts[i].is_active}
    IN  /\ Cardinality(flagged) <= 1
        /\ \A i \in flagged :
                accounts_config.active_account_id.some
                    => accounts_config.active_account_id.v = accounts[i].id

\* C7: a mutating call that returns an error leaves accounts.json and
\* keystore.json with the content they had before the call.
C7_ErrorLeavesFiles ==
    [][(last'.op \in Mutating /\ ~last'.ok)
            => (keystore_file' = keystore_file /\ config_file' = config_file)]_vars

\* what C8 says of a successful delete_account(id): record and secret are gone,
\* a deleted active account is replaced by the first remaining record or by
\* none, and another account's deletion leaves active_account_id alone
DeleteEffect ==
    /\ last'.id \notin IdsOf(accounts_config')
    /\ unlocked_keys'.some
    /\ last'.id \notin DOMAIN unlocked_keys'.v
    /\ last'.id \notin FileKeyIds(keystore_file')
    /\ IF accounts_config.active_account_id = Some(last'.id)
        THEN accounts_config'.active_account_id =
                IF accounts_config'.accounts = <<>> THEN None
                ELSE Some(accounts_config'.accounts[1].id)
        ELSE accounts_config'.active_account_id = accounts_config.active_account_id

\* C8 as stated: a successful delete has DeleteEffect, and delete_account of an
\* id that is not in the list fails with NotFound.
C8_DeleteAsStated ==
    [][(last'.op = "delete")
            => /\ last'.ok => DeleteEffect
               /\ last'.id \notin IdsOf(accounts_config)
                    => (~last'.ok /\ last'.err = "Account not found")]_vars

\* C8 amended: a successful delete has DeleteEffect; delete_account of an id that
\* is not in the list fails, with NotFound when the store is unlocked or the
\* unlock with the given password succeeds.
C8_DeleteAmended ==
    [][(last'.op = "delete")
            => /\ last'.ok => DeleteEffect
               /\ last'.id \notin IdsOf(accounts_config)
                    => /\ ~last'.ok
                       /\ (unlocked_keys.some \/ unlocked_keys'.some)
                            => last'.err = "Account not found"]_vars

\* C8 witness: a delete succeeded and the first remaining record was promoted
C8_Witness ==
    /\ last.op = "delete"
    /\ last.ok
    /\ accounts_config.accounts # <<>>
    /\ accounts_config.active_account_id = Some(accounts_config.accounts[1].id)
    /\ ~accounts_config.accounts[1].is_active

\* C9: after a successful mutating call a record has is_active = true exactly
\* when its id is active_account_id.
C9_FlagMatchesActiveId ==
    (last.op \in Mutating /\ last.ok)
        => \A i \in 1..Len(accounts_config.accounts) :
                accounts_config.accounts[i].is_active
                    <=> (accounts_config.active_account_id
                            = Some(accounts_config.accounts[i].id))

C11_ActiveIffFirstEver ==
    [][(last'.op \in {"create", "import"} /\ last'.ok)
            => (last'.is_active <=> next_id = 1)]_vars

\* C11 amended: a created or imported account gets is_active = true exactly when
\* the account list is empty at the time it is added.
C11_ActiveIffListEmpty ==
    [][(last'.op \in {"create", "import"} /\ last'.ok)
            => /\ last'.is_active <=> accounts_config.accounts = <<>>
               /\ \E i \in 1..Len(accounts_config'.accounts) :
                    /\ accounts_config'.accounts[i].id = last'.id
                    /\ accounts_config'.accounts[i].is_active = last'.is_active]_vars

\* C11 witness: an account added after the list was emptied by a successful
\* delete is flagged active
C11_Witness ==
    /\ last.op \in {"create", "import"}
    /\ last.ok
    /\ last.id = 2
    /\ last.is_active
    /\ accounts_config.active_account_id = Some(2)

\* the public keys of the records of a configuration
PublicKeysOf(cfg) == {cfg.accounts[i].public_key_hex : i \in 1..Len(cfg.accounts)}

\* the call just made was import_account of a secret whose public key a record
\* of the list already has
ImportedDuplicate ==
    /\ last'.op = "import"
    /\ keypair_from_hex(last'.key).ok
    /\ public_key_hex(keypair_from_hex(last'.key).val) \in PublicKeysOf(accounts_config)

\* list, active_account_id and both files are as before the call
StoreUntouched ==
    /\ accounts_config' = accounts_config
    /\ keystore_file' = keystore_file
    /\ config_file' = config_file

\* C12 as stated: import_account of a secret whose public key a record of the
\* list has is rejected with the duplicate error, and list, active_account_id and
\* stored keys are unchanged.
C12_DuplicateAsStated ==
    [][ImportedDuplicate
            => /\ ~last'.ok
               /\ last'.err = "Account with this public key already exists"
               /\ StoreUntouched]_vars

\* C12 amended: such an import is rejected and changes nothing; the error is the
\* duplicate error when the store is unlocked or the given password unlocks it.
C12_DuplicateAmended ==
    [][ImportedDuplicate
            => /\ ~last'.ok
               /\ StoreUntouched
               /\ (unlocked_keys.some \/ unlocked_keys'.some)
                    => /\ last'.err = "Account with this public key already exists"
                       /\ unlocked_keys'.some
                       /\ unlocked_keys.some => unlocked_keys' = unlocked_keys]_vars

\* C12 witness: an import was rejected as a duplicate of a record of the list
C12_Witness ==
    /\ last.op = "import"
    /\ ~last.ok
    /\ last.err = "Account with this public key already exists"
    /\ accounts_config.accounts # <<>>

\* KeystoreCrypto.open of a keystore file with a password succeeds
Opens(f, password) == f.some /\ decrypt_keystore(f.v, password).ok

\* the call just made took the store from Locked to Unlocked
BecameUnlocked == ~unlocked_keys.some /\ unlocked_keys'.some

\* C13 as stated: the store goes from Locked to Unlocked only through a
\* successful open of the persisted keystore with the password of the call; an
\* unlock whose password does not open the persisted keystore returns an error
\* and leaves a Locked store Locked.
C13_UnlockOnlyByOpen ==
    [][/\ BecameUnlocked => Opens(keystore_file, last'.password)
       /\ (last'.op = "unlock" /\ keystore_file.some
                /\ ~Opens(keystore_file, last'.password))
            => (~last'.ok /\ unlocked_keys' = unlocked_keys)]_vars

\* C13 amended: the store goes from Locked to Unlocked only through a successful
\* open of the persisted keystore with the password of the call or, when there
\* is no keystore file, through the creation of one sealed with that password;
\* the key map is then what the file holds.  The second half is as stated.
C13_UnlockByOpenOrCreate ==
    [][/\ BecameUnlocked
            => /\ keystore_file.some => Opens(keystore_file, last'.password)
               /\ Opens(keystore_file', last'.password)
               /\ unlocked_keys'.v
                    = decrypt_keystore(keystore_file'.v, last'.password).val
       /\ (last'.op = "unlock" /\ keystore_file.some
                /\ ~Opens(keystore_file, last'.password))
            => (~last'.ok /\ unlocked_keys' = unlocked_keys)]_vars

\* C13 witness: a locked store that holds an account was unlocked by unlock
C13_Witness ==
    /\ last.op = "unlock"
    /\ last.ok
    /\ unlocked_keys.some
    /\ unlocked_keys.v # <<>>

\* the files a call wrote, in order, are keystore writes followed by at most one
\* configuration write
KeystoreThenConfig(w) ==
    /\ \A i \in 1..Len(w) : w[i] = "config" => (i = Len(w) /\ i > 1)
    /\ \A i \in 1..Len(w) : w[i] \in {"keystore", "config"}

\* C16: create_account, import_account and delete_account write the keystore
\* file before the configuration file, and write the configuration file only
\* after a keystore write that succeeded; a call that fails writes no
\* configuration, a call that succeeds ends with the configuration write.
C16_KeystoreWrittenFirst ==
    [][last'.op \in {"create", "import", "delete"}
        => /\ KeystoreThenConfig(last'.writes)
           /\ last'.ok <=> (last'.writes # <<>>
                            /\ last'.writes[Len(last'.writes)] = "config")
           /\ config_file' # config_file => keystore_file' # keystore_file]_vars

\* C16 witness: a successful import wrote the keystore and then the configuration
C16_Witness ==
    /\ last.op = "import"
    /\ last.ok
    /\ last.writes = <<"keystore", "config">>
    /\ config_file = accounts_config

\* C18: set_active_account of an id in the list leaves exactly that record with
\* is_active = TRUE, every other record with FALSE, and active_account_id equal
\* to the id; of an id not in the list it fails with "Account not found" and
\* changes neither the list, the active id nor the configuration file.
C18_SetActiveEffect ==
    [][last'.op = "set_active"
        => IF last'.id \in IdsOf(accounts_config)
           THEN /\ last'.ok
                /\ Len(accounts_config'.accounts) = Len(accounts_config.accounts)
                /\ \A i \in 1..Len(accounts_config.accounts) :
                        accounts_config'.accounts[i] =
                            [accounts_config.accounts[i]
                                EXCEPT !.is_active =
                                    (accounts_config.accounts[i].id = last'.id)]
                /\ accounts_config'.active_account_id = Some(last'.id)
                /\ config_file' = accounts_config'
           ELSE /\ ~last'.ok
                /\ last'.err = "Account not found"
                /\ accounts_config' = accounts_config
                /\ config_file' = config_file]_vars

\* C18 witness: set_active_account moved the active account from the first
\* record to the second
C18_Witness ==
    /\ last.op = "set_active"
    /\ last.ok
    /\ Len(accounts_config.accounts) = 2
    /\ accounts_config.active_account_id = Some(accounts_config.accounts[2].id)
    /\ accounts_config.accounts[2].is_active
    /\ ~accounts_config.accounts[1].is_active

\* the calls that unlock with the password they are given
Unlocking == {"create", "import", "delete"}

\* C20: a mutating call on a locked store first unlocks with the password it is
\* given.  With no keystore file, an empty keystore sealed with that password is
\* created and the call goes on (or the file cannot be written and nothing
\* changes); with a keystore file the password does not open, the call fails
\* and adds or removes no account and no key.
C20_LockedCallUnlocksFirst ==
    [][(last'.op \in Unlocking /\ ~unlocked_keys.some)
        => /\ ~keystore_file.some
                => \/ /\ last'.err = "keystore write failed"
                      /\ ~keystore_file'.some
                      /\ ~unlocked_keys'.some
                      /\ accounts_config' = accounts_config
                      /\ config_file' = config_file
                   \/ /\ Opens(keystore_file', last'.password)
                      /\ unlocked_keys'.some
                      /\ last'.writes[1] = "keystore"
                      /\ last'.op = "create"
                            => (last'.ok /\ FileKeyIds(keystore_file') = {last'.id})
                      /\ last'.op = "import"
                            => (last'.ok <=> last'.key \notin InvalidKeys)
                      /\ last'.op = "delete"
                            => last'.err = "Account not found"
           /\ (keystore_file.some /\ ~Opens(keystore_file, last'.password))
                => /\ ~last'.ok
                   /\ ~unlocked_keys'.some
                   /\ accounts_config' = accounts_config
                   /\ keystore_file' = keystore_file
                   /\ config_file' = config_file]_vars

\* C20 witness: create_account on a new store created the keystore under its
\* password and stored the account
C20_Witness ==
    /\ last.op = "create"
    /\ last.ok
    /\ last.writes = <<"keystore", "keystore", "config">>
    /\ Opens(keystore_file, last.password)
    /\ Len(accounts_config.accounts) = 1

\* ------------------------------------------------------------------------
\* AccountStore: accessors, a new instance on the same directory, and a process
\* that stops between the keystore write and the metadata write
\* ------------------------------------------------------------------------
\* what an accessor returned, as last keeps it
Returned(res) ==
    IF ~res.ok THEN "" ELSE IF res.val.some THEN "identity" ELSE "none"

GetActive ==
    /\ \E out \in {get_active_account(Manager)} :
        last' = [Outcome("get_active", out,
                         IF accounts_config.active_account_id.some
                            THEN accounts_config.active_account_id.v ELSE 0,
                         FALSE)
                    EXCEPT !.ret = Returned(out)]
    /\ UNCHANGED <<accounts_config, unlocked_keys, keystore_file, config_file,
                   next_id, eventVars, cryptoVars, pureVars, relayVars,
                   registryVars, appVars>>

GetAccount ==
    /\ \E id \in AccountIds :
        \E out \in {get_account(Manager, id)} :
            last' = [Outcome("get", out, id, FALSE) EXCEPT !.ret = Returned(out)]
    /\ UNCHANGED <<accounts_config, unlocked_keys, keystore_file, config_file,
                   next_id, eventVars, cryptoVars, pureVars, relayVars,
                   registryVars, appVars>>

ListAccounts ==
    /\ last' = [Outcome("list", Ok(list_accounts(Manager)), 0, FALSE)
                    EXCEPT !.ret = "list"]
    /\ UNCHANGED <<accounts_config, unlocked_keys, keystore_file, config_file,
                   next_id, eventVars, cryptoVars, pureVars, relayVars,
                   registryVars, appVars>>

\* the process ends and AccountManager::new is called on the same directory
Restart ==
    /\ Becomes(reopened(Manager))
    /\ last' = Outcome("restart", Ok(TRUE), 0, FALSE)
    /\ UNCHANGED <<next_id, eventVars, cryptoVars, pureVars, relayVars,
                   registryVars, appVars>>

\* the password of the owner of the store
OwnerPassword == "pw"

\* create_account and delete_account called by the owner on a disk that works
OwnerCreate ==
    /\ next_id <= MaxIds
    /\ \E out \in {create_account(Manager, OwnerPassword, generate_keypair(Manager),
                                  next_id, fresh_entropy(Manager), "ok")} :
        /\ Becomes(out.st)
        /\ last' = [Outcome("create", out.res, next_id,
                            out.res.ok /\ out.res.val.is_active)
                        EXCEPT !.password = OwnerPassword, !.writes = out.st.log]
        /\ next_id' = IF next_id \in IdsOf(out.st.cfg) THEN next_id + 1 ELSE next_id
    /\ UNCHANGED <<eventVars, cryptoVars, pureVars, relayVars, registryVars, appVars>>

OwnerDelete ==
    /\ \E id \in AccountIds :
        \E out \in {delete_account(Manager, id, OwnerPassword,
                                   fresh_entropy(Manager), "ok")} :
            /\ Becomes(out.st)
            /\ last' = [Outcome("delete", out.res, id, FALSE)
                            EXCEPT !.password = OwnerPassword, !.writes = out.st.log]
    /\ UNCHANGED <<next_id, eventVars, cryptoVars, pureVars, relayVars,
                   registryVars, appVars>>

\* the process stops in create_account after the keystore write and before
\* save_accounts_config; a new AccountManager on the directory is unlocked with
\* the same password
CrashInCreate ==
    /\ next_id <= MaxIds
    /\ \E out \in {create_account(Manager, OwnerPassword, generate_keypair(Manager),
                                  next_id, fresh_entropy(Manager), "config")} :
        /\ out.res.err = "config write failed"
        /\ \E u \in {unlock_keystore(reopened(out.st), OwnerPassword, 1, "ok")} :
            /\ Becomes(u.st)
            /\ last' = [Outcome("crash", u.res, next_id, FALSE)
                            EXCEPT !.password = OwnerPassword]
    /\ next_id' = next_id + 1
    /\ UNCHANGED <<eventVars, cryptoVars, pureVars, relayVars, registryVars, appVars>>

\* the same in delete_account
CrashInDelete ==
    /\ \E id \in AccountIds :
        \E out \in {delete_account(Manager, id, OwnerPassword,
                                   fresh_entropy(Manager), "config")} :
            /\ out.res.err = "config write failed"
            /\ \E u \in {unlock_keystore(reopened(out.st), OwnerPassword, 1, "ok")} :
                /\ Becomes(u.st)
                /\ last' = [Outcome("crash", u.res, id, FALSE)
                                EXCEPT !.password = OwnerPassword]
    /\ UNCHANGED <<next_id, eventVars, cryptoVars, pureVars, relayVars,
                   registryVars, appVars>>

NextAccess ==
    \/ Unlock \/ Lock \/ OwnerCreate \/ OwnerDelete \/ SetActive
    \/ GetActive \/ GetAccount \/ ListAccounts
    \/ Restart \/ CrashInCreate \/ CrashInDelete

SpecAccess == Init /\ [][NextAccess]_vars

\* ------------------------------------------------------------------------
\* Claims: AccountStore accessors
\* ------------------------------------------------------------------------
\* C14: while the store is Locked get_active_account and get_account return an
\* error, whatever accounts are configured; lock_keystore leaves the store Locked.
C14_LockedGivesNoIdentity ==
    [][/\ (last'.op \in {"get", "get_active"} /\ ~unlocked_keys.some)
            => (~last'.ok /\ last'.ret = "" /\ last'.err = "Keystore is locked")
       /\ last'.op = "lock" => ~unlocked_keys'.some]_vars

\* C14 witness: get_account of a configured account whose key the keystore file
\* holds was refused on a locked store
C14_Witness ==
    /\ last.op = "get"
    /\ ~last.ok
    /\ ~unlocked_keys.some
    /\ last.id \in IdsOf(accounts_config)
    /\ last.id \in FileKeyIds(keystore_file)

\* C15: while Unlocked get_active_account returns none without error exactly when
\* no active account is configured, and get_active_account and get_account return
\* an error when the record they look up exists and the key map has no key for it.
C15_MissingKeyIsAnError ==
    [][unlocked_keys.some
        => /\ last'.op = "get_active"
                => /\ (last'.ok /\ last'.ret = "none")
                        <=> ~accounts_config.active_account_id.some
                   /\ (/\ accounts_config.active_account_id.some
                       /\ last'.id \in IdsOf(accounts_config)
                       /\ last'.id \notin DOMAIN unlocked_keys.v)
                        => ~last'.ok
           /\ (/\ last'.op = "get"
               /\ last'.id \in IdsOf(accounts_config)
               /\ last'.id \notin DOMAIN unlocked_keys.v)
                => ~last'.ok]_vars

\* the errors that report a record without key or an active id without record
IntegrityErrors ==
    {"Private key not found for active account", "Active account not found in config"}

\* C17: after the process stopped between the keystore write and the metadata
\* write of a call, and the store was reopened and unlocked, the next access to
\* the account of that call (get_account of its id, or get_active_account when
\* it is the active account) fails with an integrity error.
C17_CrashSurfacesAsIntegrityError ==
    [][(/\ last.op = "crash"
        /\ last.ok
        /\ \/ last'.op = "get" /\ last'.id = last.id
           \/ last'.op = "get_active"
                /\ accounts_config.active_account_id = Some(last.id))
            => (~last'.ok /\ last'.err \in IntegrityErrors)]_vars

\* C19: list_accounts and set_active_account work in both lock states, and
\* neither changes the lock state, the key map or the keystore file.
C19_MetadataCallsLeaveKeysAlone ==
    [][/\ last'.op \in {"list", "set_active"}
            => (unlocked_keys' = unlocked_keys /\ keystore_file' = keystore_file)
       /\ last'.op = "list"
            => (last'.ok /\ accounts_config' = accounts_config)
       /\ (last'.op = "set_active" /\ last'.id \in IdsOf(accounts_config))
            => (last'.ok /\ accounts_config'.active_account_id = Some(last'.id))]_vars

\* C19 witness: set_active_account moved the active account on a locked store
\* that holds keys
C19_Witness ==
    /\ last.op = "set_active"
    /\ last.ok
    /\ ~unlocked_keys.some
    /\ Len(accounts_config.accounts) = 2
    /\ accounts_config.accounts[2].is_active
    /\ FileKeyIds(keystore_file) # {}

\* ------------------------------------------------------------------------
\* KeystoreCrypto: a key added to or removed from a sealed keystore
\* ------------------------------------------------------------------------
\* the keystore at hand came out of add_key_to_keystore or remove_key_from_keystore
Mutated == sealed.some /\ "op" \in DOMAIN sealed.v

\* add_key_to_keystore on the keystore as create_keystore made it
KsAdd ==
    /\ keystore.some
    /\ ~Mutated
    /\ \E a \in 1..MaxKeyId, x \in Secrets, p \in Passwords, r \in Entropy :
        \E out \in {add_key_to_keystore(keystore.v, p, a,
                                        secret_key_hex(Keypair(x)), r)} :
            /\ out.ok
            /\ keystore' = Some(out.val)
            /\ sealed' = Some([keys |-> sealed.v.keys, password |-> sealed.v.password,
                               op |-> "add", id |-> a,
                               key |-> secret_key_hex(Keypair(x))])
            /\ opened' = None
    /\ UNCHANGED <<eventVars, storeVars, pureVars, relayVars, registryVars, appVars>>

\* remove_key_from_keystore on the keystore as create_keystore made it
KsRemove ==
    /\ keystore.some
    /\ ~Mutated
    /\ \E a \in 1..MaxKeyId, p \in Passwords, r \in Entropy :
        \E out \in {remove_key_from_keystore(keystore.v, p, a, r)} :
            /\ out.ok
            /\ keystore' = Some(out.val)
            /\ sealed' = Some([keys |-> sealed.v.keys, password |-> sealed.v.password,
                               op |-> "remove", id |-> a, key |-> <<>>])
            /\ opened' = None
    /\ UNCHANGED <<eventVars, storeVars, pureVars, relayVars, registryVars, appVars>>

NextKeys == KsSeal \/ KsAdd \/ KsRemove \/ KsOpen

SpecKeys == InitCrypto /\ [][NextKeys]_vars

\* ------------------------------------------------------------------------
\* Claims: KeystoreCrypto mutation
\* ------------------------------------------------------------------------
\* C21: open(addKey(seal(m, p), p, a, k), p) is m with a mapped to k, and
\* open(removeKey(seal(m, p), p, a), p) is m without a; every other entry of m
\* is as it was.
C21_MutationEquivalence ==
    (opened.some /\ Mutated /\ opened.v.password = sealed.v.password)
        => /\ opened.v.res.ok
           /\ sealed.v.op = "add"
                => /\ DOMAIN opened.v.res.val = DOMAIN sealed.v.keys \cup {sealed.v.id}
                   /\ opened.v.res.val[sealed.v.id] = sealed.v.key
           /\ sealed.v.op = "remove"
                => DOMAIN opened.v.res.val = DOMAIN sealed.v.keys \ {sealed.v.id}
           /\ \A id \in DOMAIN sealed.v.keys \ {sealed.v.id} :
                opened.v.res.val[id] = sealed.v.keys[id]

\* C21 witness: a key was added next to another one and the keystore was opened
\* with the password that sealed it
C21_Witness ==
    /\ opened.some
    /\ Mutated
    /\ sealed.v.op = "add"
    /\ opened.v.password = sealed.v.password
    /\ opened.v.res.ok
    /\ DOMAIN sealed.v.keys = {1}
    /\ sealed.v.id = 2

\* ------------------------------------------------------------------------
\* EventCodec and Identity: the functions applied to drawn arguments
\*
\* probe holds the arguments and the result of one application; a function of
\* its arguments alone is applied once per behaviour.
\* ------------------------------------------------------------------------
\* the unsigned events the builders of UnsignedEvent can make
Unsigned ==
    {UnsignedEvent(public_key_hex(Keypair(x)), t, kind, tags, c) :
        x \in Secrets, t \in Times, kind \in Kinds, tags \in TagLists, c \in Contents}

\* the fields two unsigned events differ in
DiffFields(u, v) == {f \in DOMAIN u : u[f] # v[f]}

\* calculate_id of an unsigned event and of one that is equal to it or differs
\* from it in one field
ProbeId ==
    /\ ~probe.some
    /\ \E u \in Unsigned, v \in Unsigned :
        /\ Cardinality(DiffFields(u, v)) <= 1
        /\ probe' = Some([fn |-> "calculate_id", a |-> u, b |-> v,
                          id_a |-> calculate_id(u), id_b |-> calculate_id(v)])
    /\ UNCHANGED <<eventVars, cryptoVars, storeVars, relayVars, registryVars, appVars>>

\* UnsignedEvent::sign of an unsigned event with any keypair
ProbeSign ==
    /\ ~probe.some
    /\ \E u \in Unsigned, x \in Secrets, k \in Nonces :
        probe' = Some([fn |-> "sign", u |-> u, kp |-> Keypair(x),
                       id_before |-> calculate_id(u),
                       res |-> sign(u, Keypair(x), k)])
    /\ UNCHANGED <<eventVars, cryptoVars, storeVars, relayVars, registryVars, appVars>>

\* what a holder of a hex string can make of it: the string itself, one character
\* dropped, a character that is no hex digit, two bytes only, one byte more
HexVariants(h) ==
    {h,
     SubSeq(h, 1, Len(h) - 1),
     <<122>> \o SubSeq(h, 2, Len(h)),
     SubSeq(h, 1, 4),
     h \o <<48, 48>>}

\* the event verify_signature is tried on before its strings are rewritten
SignedNote(x, k) ==
    sign(UnsignedEvent(public_key_hex(Keypair(x)), BaseTime, 1, <<>>,
                       <<104, 101, 108, 108, 111>>), Keypair(x), k).val

\* NostrEvent::verify_signature of an event whose id and sig, and of a public
\* key, that may be malformed
ProbeVerify ==
    /\ ~probe.some
    /\ \E x \in Secrets, k \in Nonces :
        \E id \in HexVariants(SignedNote(x, k).id),
           sig \in HexVariants(SignedNote(x, k).sig),
           pk \in HexVariants(public_key_hex(Keypair(x))) :
            probe' = Some([fn |-> "verify_signature", id |-> id, sig |-> sig,
                           pk |-> pk,
                           res |-> verify_signature(
                                [SignedNote(x, k) EXCEPT !.id = id, !.sig = sig], pk)])
    /\ UNCHANGED <<eventVars, cryptoVars, storeVars, relayVars, registryVars, appVars>>

\* every secret scalar of the group
Scalars == 1..(Curve.q - 1)

\* generate_keypair yields a keypair; keypair_from_hex is applied to its
\* secret_key_hex
ProbeKey ==
    /\ ~probe.some
    /\ \E x \in Scalars :
        probe' = Some([fn |-> "keypair_from_hex", kp |-> Keypair(x),
                       arg |-> secret_key_hex(Keypair(x)),
                       res |-> keypair_from_hex(secret_key_hex(Keypair(x)))])
    /\ UNCHANGED <<eventVars, cryptoVars, storeVars, relayVars, registryVars, appVars>>

\* NostrEvent::new_text_note of a content with any keypair
ProbeNote ==
    /\ ~probe.some
    /\ \E c \in Contents, x \in Scalars, t \in Times, k \in Nonces :
        probe' = Some([fn |-> "new_text_note", kp |-> Keypair(x), content |-> c,
                       res |-> new_text_note(c, Keypair(x), t, k)])
    /\ UNCHANGED <<eventVars, cryptoVars, storeVars, relayVars, registryVars, appVars>>

NextPure == ProbeId \/ ProbeSign \/ ProbeVerify \/ ProbeKey \/ ProbeNote

SpecPure == Init /\ [][NextPure]_vars

\* the function the probe applied
Probed(fn) == probe.some /\ probe.v.fn = fn

\* ------------------------------------------------------------------------
\* Claims: EventCodec and Identity functions
\* ------------------------------------------------------------------------
\* C22: calculate_id depends on pubkey, created_at, kind, tags and content
\* alone: equal fields give the same id of 64 characters, and two events that
\* differ in one of the five fields have different ids.
C22_IdOfFiveFields ==
    Probed("calculate_id")
        => /\ Len(probe.v.id_a) = 64
           /\ probe.v.a = probe.v.b => probe.v.id_a = probe.v.id_b
           /\ probe.v.a # probe.v.b => probe.v.id_a # probe.v.id_b

\* C22 witness: two events that differ in their kind alone were given ids
C22_Witness ==
    /\ Probed("calculate_id")
    /\ DiffFields(probe.v.a, probe.v.b) = {"kind"}

\* C23: sign(msg, kp) returns an event whose id is calculate_id(msg) as computed
\* before signing and whose pubkey, created_at, kind, tags and content are
\* those of msg.
C23_SignKeepsFields ==
    Probed("sign")
        => /\ probe.v.res.ok
           /\ probe.v.res.val.id = probe.v.id_before
           /\ \A f \in DOMAIN probe.v.u : probe.v.res.val[f] = probe.v.u[f]
           /\ DOMAIN probe.v.res.val = DOMAIN probe.v.u \cup {"id", "sig"}

\* C23 witness: an event with tags, whose pubkey is not the signer's, was signed
C23_Witness ==
    /\ Probed("sign")
    /\ probe.v.res.ok
    /\ probe.v.u.tags # <<>>
    /\ probe.v.u.pubkey # public_key_hex(probe.v.kp)

\* s is the lower- or upper-case hex of exactly n bytes
WellFormedHex(s, n) ==
    /\ Len(s) = 2 * n
    /\ \A i \in 1..Len(s) :
        s[i] \in (48..57) \cup (97..102) \cup (65..70)

\* C24: verify_signature reports an error, not false, whenever the id, the
\* signature or the public key is malformed hex or does not decode to exactly
\* 32, 64 and 32 bytes; it returns false only for well-formed inputs whose
\* signature does not verify.
C24_MalformedIsAnError ==
    Probed("verify_signature")
        => LET well_formed ==
                /\ WellFormedHex(probe.v.id, MESSAGE_SIZE)
                /\ WellFormedHex(probe.v.sig, SIGNATURE_SIZE)
                /\ WellFormedHex(probe.v.pk, PUBLIC_KEY_SIZE)
           IN  /\ ~well_formed => ~probe.v.res.ok
               /\ (probe.v.res.ok /\ ~probe.v.res.val) => well_formed

\* C30: keypair_from_hex(secret_key_hex(kp)) has the secret key hex and the
\* public key hex of kp, and the public key hex and its npub form are those of
\* every keypair of the same secret.
C30_KeyRoundTrip ==
    Probed("keypair_from_hex")
        => /\ probe.v.res.ok
           /\ secret_key_hex(probe.v.res.val) = probe.v.arg
           /\ public_key_hex(probe.v.res.val) = public_key_hex(probe.v.kp)
           /\ public_key_npub(probe.v.res.val) = public_key_npub(probe.v.kp)
           /\ Len(probe.v.arg) = 2 * SECRET_KEY_SIZE
           /\ Len(public_key_hex(probe.v.res.val)) = 2 * PUBLIC_KEY_SIZE

\* C30 witness: the keypair of the largest secret scalar was rebuilt from its hex
C30_Witness ==
    /\ Probed("keypair_from_hex")
    /\ probe.v.res.ok
    /\ probe.v.kp.secret = Curve.q - 1

\* ------------------------------------------------------------------------
\* KeystoreCrypto: a keystore file that was damaged after it was written
\* ------------------------------------------------------------------------
\* the ways the keystore at hand can be damaged
Damages ==
    {"ciphertext", "salt", "salt_value", "nonce", "nonce_length",
     "not_json", "not_utf8"}

\* the keystore at hand was damaged after create_keystore made it
Damaged == sealed.some /\ "damage" \in DOMAIN sealed.v

\* bytes that are no JSON object of strings, or no UTF-8 at all, encrypted as
\* create_keystore encrypts the serialised keys
Resealed(ks, password, plaintext) ==
    [ks EXCEPT !.encrypted_data =
        aead_encrypt(derive_encryption_key(password, ks.salt).val, ks.nonce,
                     plaintext)]

\* the keystore with one kind of damage
Damage(ks, password, kind) ==
    CASE kind = "ciphertext" -> [ks EXCEPT !.encrypted_data.intact = FALSE]
      [] kind = "salt" -> [ks EXCEPT !.salt.b64 = FALSE]
      [] kind = "salt_value" -> [ks EXCEPT !.salt.n = @ + 1]
      [] kind = "nonce" -> [ks EXCEPT !.nonce = generate_nonce(@[1] + 1)]
      [] kind = "nonce_length" -> [ks EXCEPT !.nonce = SubSeq(@, 1, NONCE_SIZE - 1)]
      [] kind = "not_json" ->
            Resealed(ks, password, [utf8 |-> TRUE, json |-> FALSE, entries |-> <<>>])
      [] kind = "not_utf8" ->
            Resealed(ks, password, [utf8 |-> FALSE, json |-> FALSE, entries |-> <<>>])

\* the keystore file is rewritten by something else than KeystoreManager
KsDamage ==
    /\ keystore.some
    /\ ~Damaged
    /\ \E kind \in Damages :
        /\ keystore' = Some(Damage(keystore.v, sealed.v.password, kind))
        /\ sealed' = Some([keys |-> sealed.v.keys, password |-> sealed.v.password,
                           damage |-> kind])
        /\ opened' = None
    /\ UNCHANGED <<eventVars, storeVars, pureVars, relayVars, registryVars, appVars>>

NextDamage == KsSeal \/ KsDamage \/ KsOpen

SpecDamage == InitCrypto /\ [][NextDamage]_vars

\* the errors of decrypt_keystore by the kind of failure they report
BadPassword == {"Invalid password"}

CorruptEnvelope == {"Decryption failed", "Invalid salt format"}

MalformedKeyData == {"Failed to parse decrypted keys", "Invalid UTF-8 in decrypted data"}

\* ------------------------------------------------------------------------
\* Claims: KeystoreCrypto failures
\* ------------------------------------------------------------------------
\* C25: decrypt_keystore returns every failure as an error and never aborts: a
\* password that fails the check gives the bad-password error even when the
\* ciphertext is damaged too; with the right password a damaged ciphertext, salt
\* or nonce (a nonce of the wrong length included) gives the corrupt-envelope
\* error, and decrypted bytes that are no key map give the malformed-key-data
\* error.
C25_FailuresAreErrors ==
    (opened.some /\ Damaged)
        => /\ ~opened.v.res.panic
           /\ ~opened.v.res.ok
           /\ opened.v.password # sealed.v.password
                => opened.v.res.err \in BadPassword
           /\ (/\ opened.v.password = sealed.v.password
               /\ sealed.v.damage \in {"ciphertext", "salt", "salt_value",
                                       "nonce", "nonce_length"})
                => opened.v.res.err \in CorruptEnvelope
           /\ (/\ opened.v.password = sealed.v.password
               /\ sealed.v.damage \in {"not_json", "not_utf8"})
                => opened.v.res.err \in MalformedKeyData

\* ------------------------------------------------------------------------
\* The relay protocol: PostCommand against a relay, and MockRelay against the
\* messages of a client
\* ------------------------------------------------------------------------
MaxRelayMessages == 2

\* what connect_async and send meet
Nets == {"ok", "refused", "send_failed"}

\* an id no event of the model has
OTHER_ID == hex_encode(NatToBytes(0, MESSAGE_SIZE))

\* what a relay may send first to a client that sent the event of this id
FirstMessages(id) ==
    <<TextOf(JArr(<<JStr(OK_TAG), JStr(id), JBool(TRUE), JStr(HUMAN_TEXT)>>)),
      TextOf(JArr(<<JStr(OK_TAG), JStr(id), JBool(TRUE), JStr(HUMAN_TEXT),
                    JStr(HUMAN_TEXT)>>)),
      TextOf(JArr(<<JStr(OK_TAG), JStr(id), JBool(FALSE), JStr(HUMAN_TEXT)>>)),
      TextOf(JArr(<<JStr(OK_TAG), JStr(OTHER_ID), JBool(TRUE), JStr(HUMAN_TEXT)>>)),
      TextOf(JArr(<<JStr(OK_TAG), JStr(id), JBool(TRUE)>>)),
      TextOf(JArr(<<JStr(OK_TAG), JNum(0), JBool(TRUE), JStr(HUMAN_TEXT)>>)),
      TextOf(JArr(<<JStr(OK_TAG), JStr(id), JStr(HUMAN_TEXT), JStr(HUMAN_TEXT)>>)),
      TextOf(JArr(<<JStr(NOTICE_TAG), JStr(HUMAN_TEXT)>>)),
      TextOf(JArr(<<JStr(EOSE_TAG), JStr(id), JBool(TRUE), JStr(HUMAN_TEXT)>>)),
      TextOf(JArr(<<JNum(0), JStr(id), JBool(TRUE), JStr(HUMAN_TEXT)>>)),
      TextOf(JArr(<<>>)),
      TextOf(JStr(OK_TAG)),
      [kind |-> "text", json |-> None],
      [kind |-> "close"], [kind |-> "binary"], [kind |-> "ping"], [kind |-> "pong"],
      [kind |-> "frame"], [kind |-> "error"], [kind |-> "end"]>>

\* PostCommand::new and the first half of execute
PostSend ==
    /\ ~outbox.some
    /\ ~posted.some
    /\ ~probe.some
    /\ \E c \in Contents, url \in RelayUrls, key \in ImportKeys, net \in Nets,
          t \in Times, k \in Nonces :
        \E out \in {execute_send([message_content |-> c, relay_url |-> url,
                                  author_private_key_hex |-> key], t, k, net)} :
            IF out.ok THEN outbox' = Some(out.val) /\ posted' = posted
                      ELSE outbox' = outbox /\ posted' = Some(out)
    /\ UNCHANGED <<inbox, events_received, eventVars, cryptoVars, storeVars, pureVars,
                   registryVars, appVars>>

\* the relay is a MockRelay: it handles the message of the PostCommand
RelayHandlePost ==
    /\ outbox.some
    /\ ~posted.some
    /\ ~probe.some
    /\ \E out \in {handle_connection(events_received, outbox.v.message)} :
        /\ events_received' = out.received
        /\ inbox' = IF inbox.some THEN inbox ELSE out.reply
        /\ probe' = Some([fn |-> "relay", msg |-> outbox.v.message,
                          reply |-> out.reply, open |-> out.open, n |-> 1])
    /\ UNCHANGED <<outbox, posted, eventVars, cryptoVars, storeVars,
                   registryVars, appVars>>

\* the relay is another program: it sends what it likes, or closes
ForeignReply ==
    /\ outbox.some
    /\ ~posted.some
    /\ ~inbox.some
    /\ ~probe.some
    /\ \E i \in 1..Len(FirstMessages(outbox.v.event.id)) :
        inbox' = Some(FirstMessages(outbox.v.event.id)[i])
    /\ UNCHANGED <<outbox, posted, events_received, eventVars, cryptoVars,
                   storeVars, pureVars, registryVars, appVars>>

\* the second half of PostCommand::execute: the first message, or the timeout
PostReceive ==
    /\ outbox.some
    /\ ~posted.some
    /\ posted' = Some(execute_receive(IF inbox.some THEN inbox.v
                                                    ELSE [kind |-> "timeout"],
                                      outbox.v.event.id))
    /\ UNCHANGED <<outbox, inbox, events_received, eventVars, cryptoVars,
                   storeVars, pureVars, registryVars, appVars>>

\* the other note of the same author
OtherNote(x, k) ==
    sign(UnsignedEvent(public_key_hex(Keypair(x)), BaseTime, 1, <<>>,
                       <<104, 101, 108, 108, 112>>), Keypair(x), k).val

\* a note that names a public key which is no point of the curve
PointlessNote(x, k) ==
    sign(UnsignedEvent(hex_encode(NatToBytes(0, PUBLIC_KEY_SIZE)), BaseTime, 1, <<>>,
                       <<104, 101, 108, 108, 111>>), Keypair(x), k).val

\* the events a client can put into an EVENT message: a signed note, and the
\* note with its signature, content, id or public key rewritten
ClientEvents(note, other, pointless, stranger) ==
    <<note,
      [note EXCEPT !.sig = SubSeq(@, 1, 17)],
      [note EXCEPT !.sig = <<122>> \o SubSeq(@, 2, Len(@))],
      [note EXCEPT !.sig = other.sig],
      [note EXCEPT !.content = other.content],
      [note EXCEPT !.id = SubSeq(@, 1, 4)],
      [note EXCEPT !.id = <<>>],
      [note EXCEPT !.pubkey = stranger],
      pointless>>

\* the messages of a client that are no EVENT with an event in it
OtherMessages ==
    <<TextOf(JArr(<<JStr(EVENT_TAG)>>)),
      TextOf(JArr(<<JStr(EVENT_TAG), JStr(SUB_ID)>>)),
      TextOf(JArr(<<JStr(EVENT_TAG), JObj([id |-> JStr(OTHER_ID)])>>)),
      TextOf(JArr(<<JStr(REQ_TAG), JStr(SUB_ID), JObj([kinds |-> JArr(<<JNum(1)>>)])>>)),
      TextOf(JArr(<<JStr(REQ_TAG), JStr(SUB_ID)>>)),
      TextOf(JArr(<<JStr(CLOSE_TAG), JStr(SUB_ID)>>)),
      TextOf(JArr(<<JStr(AUTH_TAG), JStr(SUB_ID)>>)),
      TextOf(JArr(<<JNum(0)>>)),
      TextOf(JArr(<<>>)),
      TextOf(JStr(EVENT_TAG)),
      [kind |-> "text", json |-> None],
      [kind |-> "binary"],
      [kind |-> "close"]>>

\* the number of messages the relay has handled on its connection
Handled == IF probe.some THEN probe.v.n ELSE 0

\* one turn of MockRelay::handle_connection on a message of a test client
RelayTurn(msg) ==
    \E out \in {handle_connection(events_received, msg)} :
        /\ events_received' = out.received
        /\ probe' = Some([fn |-> "relay", msg |-> msg, reply |-> out.reply,
                          open |-> out.open, n |-> Handled + 1])

\* a test client sends a message to the MockRelay
RelayHandle ==
    /\ ~outbox.some
    /\ ~posted.some
    /\ Handled < MaxRelayMessages
    /\ probe.some => probe.v.open
    /\ \/ \E x \in Secrets :
            \E events \in {ClientEvents(SignedNote(x, 1), OtherNote(x, 1),
                                        PointlessNote(x, 1),
                                        public_key_hex(Keypair((x % MaxSecret) + 1)))} :
                \E i \in 1..Len(events) :
                    RelayTurn(TextOf(JArr(<<JStr(EVENT_TAG),
                                            to_json_value(events[i])>>)))
       \/ \E i \in 1..Len(OtherMessages) : RelayTurn(OtherMessages[i])
    /\ UNCHANGED <<outbox, inbox, posted, eventVars, cryptoVars, storeVars,
                   registryVars, appVars>>

NextRelay == PostSend \/ RelayHandlePost \/ ForeignReply \/ PostReceive \/ RelayHandle

SpecRelay == Init /\ [][NextRelay]_vars

\* ------------------------------------------------------------------------
\* Claims: the relay protocol
\* ------------------------------------------------------------------------
\* m is a text message that holds an OK array of at least four elements with
\* this id and accepted = true
Accepting(m, id) ==
    /\ m.kind = "text"
    /\ m.json.some
    /\ m.json.v.t = "arr"
    /\ Len(m.json.v.v) >= 4
    /\ m.json.v.v[1].t = "str" /\ m.json.v.v[1].v = OK_TAG
    /\ m.json.v.v[2].t = "str" /\ m.json.v.v[2].v = id
    /\ m.json.v.v[3].t = "bool" /\ m.json.v.v[3].v

\* C27: PostCommand::execute reports success only when the first message from
\* the relay is an OK array of at least four elements whose id is the id of the
\* event sent and whose accepted flag is true; any other first message, a closed
\* connection or no reply in time gives an error.
C27_SuccessOnlyOnMatchingOk ==
    posted.some
        => /\ posted.v.ok
                <=> (outbox.some /\ inbox.some
                        /\ Accepting(inbox.v, outbox.v.event.id))
           /\ posted.v.ok => posted.v.val = outbox.v.event.id

\* C27 witness: the MockRelay accepted the event of a PostCommand and execute
\* returned its id
C27_Witness ==
    /\ posted.some
    /\ posted.v.ok
    /\ Probed("relay")
    /\ Len(events_received) = 1

\* m is a text message that holds an array whose first element is "EVENT"
IsEventMessage(m) ==
    /\ m.kind = "text"
    /\ m.json.some
    /\ m.json.v.t = "arr"
    /\ Len(m.json.v.v) >= 1
    /\ m.json.v.v[1].t = "str" /\ m.json.v.v[1].v = EVENT_TAG

\* m carries something that deserialises as an event
CarriesEvent(m) ==
    /\ IsEventMessage(m)
    /\ Len(m.json.v.v) >= 2
    /\ event_from_value(m.json.v.v[2]).ok

\* the event passes validation: lengths, id, signature
Passes(e) ==
    /\ Len(e.id) = 64 /\ Len(e.pubkey) = 64 /\ Len(e.sig) = 128
    /\ e.id = calculate_id(UnsignedEvent(e.pubkey, e.created_at, e.kind, e.tags,
                                         e.content))
    /\ verify_signature(e, e.pubkey) = Ok(TRUE)

\* the relay answered the event with one OK reply of its id, accepted exactly
\* when it passes validation, and recorded it exactly when it accepted it
AnsweredOk(e) ==
    /\ probe'.v.reply.some
    /\ probe'.v.reply.v.kind = "text"
    /\ probe'.v.reply.v.json.v.t = "arr"
    /\ Len(probe'.v.reply.v.json.v.v) = 4
    /\ probe'.v.reply.v.json.v.v[1] = JStr(OK_TAG)
    /\ probe'.v.reply.v.json.v.v[2] = JStr(e.id)
    /\ probe'.v.reply.v.json.v.v[3] = JBool(Passes(e))
    /\ events_received' = IF Passes(e) THEN Append(events_received, e)
                                       ELSE events_received

\* the relay took a turn
RelayStep == probe'.some /\ probe'.v.fn = "relay" /\ probe' # probe

\* C28 as stated: every EVENT message is answered with one OK reply that
\* carries the id of the event, accepted exactly when the event passes
\* validation, and events_received grows only by accepted events.
C28_EveryEventAnswered ==
    [][RelayStep
        => /\ IsEventMessage(probe'.v.msg)
                => /\ CarriesEvent(probe'.v.msg)
                   /\ AnsweredOk(event_from_value(probe'.v.msg.json.v.v[2]).val)
           /\ ~IsEventMessage(probe'.v.msg) => events_received' = events_received]_vars

\* C28 amended: every EVENT message whose second element deserialises as an
\* event is answered with one OK reply that carries the id of the event,
\* accepted exactly when the event passes validation; events_received grows
\* only by accepted events.
C28_ParsedEventAnswered ==
    [][RelayStep
        => /\ CarriesEvent(probe'.v.msg)
                => AnsweredOk(event_from_value(probe'.v.msg.json.v.v[2]).val)
           /\ ~CarriesEvent(probe'.v.msg) => events_received' = events_received]_vars

\* C28 witness: the relay accepted one event and then rejected an event whose
\* signature is well-formed and does not verify
C28_Witness ==
    /\ Probed("relay")
    /\ probe.v.n = 2
    /\ Len(events_received) = 1
    /\ CarriesEvent(probe.v.msg)
    /\ Len(event_from_value(probe.v.msg.json.v.v[2]).val.sig) = 128
    /\ probe.v.reply.v.json.v.v[3] = JBool(FALSE)

\* ------------------------------------------------------------------------
\* Claims: AccountStore persistence and the gate of imported keys
\* ------------------------------------------------------------------------
\* the persisted state as a new AccountManager on the same directory has it
\* after unlock_keystore with this password
SeenByNewInstance(cfgf, ksf, password) ==
    unlock_keystore([cfg |-> cfgf, keys |-> None, ksf |-> ksf, cfgf |-> cfgf,
                     log |-> <<>>], password, 1, "ok")

\* C26: after every successful create_account, import_account, delete_account
\* and set_active_account the configuration file holds the in-memory
\* configuration and the keystore file opens under the password to the
\* in-memory key map, so that a new instance that unlocks with the password has
\* the same accounts, active id and keys.
C26_FilesEqualMemory ==
    [][(last'.op \in Mutating /\ last'.ok)
        => /\ config_file' = accounts_config'
           /\ \E p \in StorePasswords :
                /\ last'.op # "set_active" => p = last'.password
                /\ Opens(keystore_file', p)
                /\ unlocked_keys'.some
                    => decrypt_keystore(keystore_file'.v, p).val = unlocked_keys'.v
                /\ SeenByNewInstance(config_file', keystore_file', p).res.ok
                /\ SeenByNewInstance(config_file', keystore_file', p).st.cfg
                        = accounts_config'
                /\ unlocked_keys'.some
                    => SeenByNewInstance(config_file', keystore_file', p).st.keys
                            = unlocked_keys']_vars

\* C26 witness: after a successful delete_account one account and its key are
\* left, in memory and in the files
C26_Witness ==
    /\ last.op = "delete"
    /\ last.ok
    /\ Len(accounts_config.accounts) = 1
    /\ unlocked_keys.some
    /\ DOMAIN unlocked_keys.v = IdsOf(accounts_config)
    /\ config_file = accounts_config

\* the string is the hex of 32 bytes that are a valid secret scalar
WellFormedSecret(h) ==
    /\ WellFormedHex(h, SECRET_KEY_SIZE)
    /\ BytesToNat(hex_decode(h).val) >= 1
    /\ BytesToNat(hex_decode(h).val) < Curve.q

\* C29: keypair_from_hex rejects every string that is not the hex of exactly 32
\* bytes or is no valid secret scalar (zero, or the order of the group or more),
\* and import_account of such a string fails without adding a record to the
\* list or a key to the keystore.
C29_InvalidKeyRejected ==
    [][last'.op = "import"
        => /\ keypair_from_hex(last'.key).ok <=> WellFormedSecret(last'.key)
           /\ ~WellFormedSecret(last'.key)
                => /\ ~last'.ok
                   /\ accounts_config' = accounts_config
                   /\ config_file' = config_file
                   /\ FileKeyIds(keystore_file') = FileKeyIds(keystore_file)
                   /\ (unlocked_keys.some /\ unlocked_keys'.some)
                        => unlocked_keys' = unlocked_keys
                   /\ (~unlocked_keys.some /\ unlocked_keys'.some)
                        => DOMAIN unlocked_keys'.v = FileKeyIds(keystore_file)]_vars

\* C29 witness: the import of the order of the group as a key was refused by an
\* unlocked store that holds an account
C29_Witness ==
    /\ last.op = "import"
    /\ ~last.ok
    /\ last.key = hex_encode(NatToBytes(Curve.q, SECRET_KEY_SIZE))
    /\ last.err = "InvalidSecretKey"
    /\ unlocked_keys.some
    /\ accounts_config.accounts # <<>>

\* ------------------------------------------------------------------------
\* Claims: the text note
\* ------------------------------------------------------------------------
\* C31: every event new_text_note builds from a keypair has an id of 64 hex
\* characters, the public key hex of the keypair (64 hex characters) as its
\* pubkey, a signature of 128 hex characters, and kind 1.
C31_TextNoteShape ==
    (Probed("new_text_note") /\ probe.v.res.ok)
        => /\ WellFormedHex(probe.v.res.val.id, 32)
           /\ WellFormedHex(probe.v.res.val.pubkey, 32)
           /\ probe.v.res.val.pubkey = public_key_hex(probe.v.kp)
           /\ WellFormedHex(probe.v.res.val.sig, 64)
           /\ probe.v.res.val.kind = 1

\* C31 witness: new_text_note returned an event for a content that is not empty
C31_Witness ==
    /\ Probed("new_text_note")
    /\ probe.v.res.ok
    /\ probe.v.content # <<>>

\* ------------------------------------------------------------------------
\* AccountStore: behaviours in which every call returns Ok
\* ------------------------------------------------------------------------
NextClean ==
    \/ Unlock /\ last'.ok
    \/ Lock /\ last'.ok
    \/ CreateAccount /\ last'.ok
    \/ ImportAccount /\ last'.ok
    \/ DeleteAccount /\ last'.ok
    \/ SetActive /\ last'.ok

SpecClean == Init /\ [][NextClean]_vars

\* ------------------------------------------------------------------------
\* Claims: AccountStore after failed calls, and the password of the keystore
\* ------------------------------------------------------------------------
\* C32: a delete_account that returns an error leaves the in-memory account
\* list and active_account_id as they were before the call.
C32_FailedDeleteKeepsMemory ==
    [][(last'.op = "delete" /\ ~last'.ok)
        => /\ accounts_config'.accounts = accounts_config.accounts
           /\ accounts_config'.active_account_id
                = accounts_config.active_account_id]_vars

\* a call wrote keystore.json
WroteKeystore(writes) == \E i \in 1..Len(writes) : writes[i] = "keystore"

\* C33: the passwords that open keystore.json never change once the file
\* exists, the file is created sealed under the password of the call that
\* creates it, and a mutating call with a password that does not open the file
\* does not write it.
C33_PasswordNeverChanges ==
    [][/\ (keystore_file.some /\ keystore_file' # keystore_file)
            => \A p \in StorePasswords :
                    Opens(keystore_file', p) <=> Opens(keystore_file, p)
       /\ (~keystore_file.some /\ keystore_file'.some)
            => /\ Opens(keystore_file', last'.password)
               /\ \A p \in StorePasswords \ {last'.password} :
                        ~Opens(keystore_file', p)
       /\ (last'.op \in Mutating /\ keystore_file.some
                /\ (WroteKeystore(last'.writes) \/ keystore_file' # keystore_file))
            => Opens(keystore_file, last'.password)]_vars

\* C33 witness: on an unlocked store that holds an account, a create, import or
\* delete was called with a password that does not open the keystore file
C33_Witness ==
    /\ last.op \in Unlocking
    /\ keystore_file.some
    /\ ~Opens(keystore_file, last.password)
    /\ unlocked_keys.some
    /\ FileKeyIds(keystore_file) # {}

\* C34: after calls that all succeeded, starting with no account and no
\* keystore, an unlocked store has a key for exactly the ids of its records, and
\* the public_key_hex of each record is the public key of the key under its id.
C34_KeysMatchRecords ==
    unlocked_keys.some
        => /\ DOMAIN unlocked_keys.v = IdsOf(accounts_config)
           /\ \A i \in 1..Len(accounts_config.accounts) :
                LET account == accounts_config.accounts[i]
                IN  /\ keypair_from_hex(unlocked_keys.v[account.id]).ok
                    /\ public_key_hex(keypair_from_hex(unlocked_keys.v[account.id]).val)
                            = account.public_key_hex

\* C34 witness: an unlocked store holds two accounts after an import
C34_Witness ==
    /\ last.op = "import"
    /\ last.ok
    /\ unlocked_keys.some
    /\ Len(accounts_config.accounts) = 2

\* C35: a create_account, import_account or delete_account that returns an
\* error leaves the store locked if it was locked, and unlocked if it was
\* unlocked.
C35_ErrorKeepsLockState ==
    [][(last'.op \in Unlocking /\ ~last'.ok)
        => (unlocked_keys'.some <=> unlocked_keys.some)]_vars

\* ------------------------------------------------------------------------
\* Claims: KeystoreCrypto mutation of a present and of an absent id
\* ------------------------------------------------------------------------
\* the keystore at hand came out of this operation on this id and was opened
\* with the password that sealed it
OpenedAfter(op) ==
    /\ opened.some
    /\ Mutated
    /\ sealed.v.op = op
    /\ opened.v.password = sealed.v.password

\* C36: add_key_to_keystore with an id the keystore holds replaces the secret
\* of that id and leaves the number of entries and every other entry as they
\* were; remove_key_from_keystore with an id the keystore does not hold
\* succeeds, and its keystore opens to the same key map.
C36_PresentAddAbsentRemove ==
    /\ (OpenedAfter("add") /\ sealed.v.id \in DOMAIN sealed.v.keys)
        => /\ opened.v.res.ok
           /\ DOMAIN opened.v.res.val = DOMAIN sealed.v.keys
           /\ Cardinality(DOMAIN opened.v.res.val) = Cardinality(DOMAIN sealed.v.keys)
           /\ opened.v.res.val[sealed.v.id] = sealed.v.key
           /\ \A id \in DOMAIN sealed.v.keys \ {sealed.v.id} :
                opened.v.res.val[id] = sealed.v.keys[id]
    /\ (keystore.some /\ ~Mutated)
        => \A a \in (1..MaxKeyId) \ DOMAIN sealed.v.keys, r \in Entropy :
                remove_key_from_keystore(keystore.v, sealed.v.password, a, r).ok
    /\ (OpenedAfter("remove") /\ sealed.v.id \notin DOMAIN sealed.v.keys)
        => /\ opened.v.res.ok
           /\ DOMAIN opened.v.res.val = DOMAIN sealed.v.keys
           /\ \A id \in DOMAIN sealed.v.keys :
                opened.v.res.val[id] = sealed.v.keys[id]

\* C36 witness: the secret of one of two ids was replaced by another secret
\* and the keystore was opened
C36_Witness ==
    /\ OpenedAfter("add")
    /\ opened.v.res.ok
    /\ DOMAIN sealed.v.keys = {1, 2}
    /\ sealed.v.id = 1
    /\ sealed.v.key # sealed.v.keys[1]

\* ------------------------------------------------------------------------
\* RelayManager: add_relay and connect_relay on one registry
\*
\* probe holds the last call, its result and the registry before it.
\* ------------------------------------------------------------------------
\* what connect_async can meet at a URL: only a ws or wss URL can be connected to
ConnectOutcomes(url) ==
    IF url.parses /\ url.scheme \in {"ws", "wss"} THEN {"ok", "refused"}
    ELSE {"refused"}

RegistryAdd ==
    /\ \E url \in RelayUrls :
        \E out \in {add_relay(relays, url)} :
            /\ relays' = out.st
            /\ probe' = Some([fn |-> "add_relay", url |-> url, res |-> out.res,
                              before |-> relays])
    /\ UNCHANGED <<eventVars, cryptoVars, storeVars, relayVars, appVars>>

RegistryConnect ==
    /\ \E url \in RelayUrls :
        \E net \in ConnectOutcomes(url) :
            \E out \in {connect_relay(relays, url, net)} :
                /\ relays' = out.st
                /\ probe' = Some([fn |-> "connect_relay", url |-> url,
                                  res |-> out.res, before |-> relays])
    /\ UNCHANGED <<eventVars, cryptoVars, storeVars, relayVars, appVars>>

NextRegistry == RegistryAdd \/ RegistryConnect

SpecRegistry == Init /\ [][NextRegistry]_vars

\* ------------------------------------------------------------------------
\* Claims: RelayManager
\* ------------------------------------------------------------------------
\* C37: after connect_relay(url) has returned, the status of url is Connected if
\* it returned a connection and Failed if it returned an error, and no URL has
\* the status Connecting; connected_relays is the set of the URLs whose status is
\* Connected; add_relay of a URL whose scheme is neither ws nor wss fails and
\* leaves the registry as it was.
C37_RegistryAfterCalls ==
    /\ Probed("connect_relay")
        => /\ probe.v.res.ok
                => get_relay_status(relays, probe.v.url) = Some("Connected")
           /\ ~probe.v.res.ok
                => get_relay_status(relays, probe.v.url) = Some("Failed")
    /\ \A url \in RelayUrls : get_relay_status(relays, url) # Some("Connecting")
    /\ \A url \in RelayUrls :
            url \in connected_relays(relays)
                <=> get_relay_status(relays, url) = Some("Connected")
    /\ (Probed("add_relay") /\ probe.v.url.scheme \notin {"ws", "wss"})
        => /\ ~probe.v.res.ok
           /\ relays = probe.v.before

\* C37 witness: connect_relay returned an error for one URL while another URL
\* is connected
C37_Witness ==
    /\ Probed("connect_relay")
    /\ ~probe.v.res.ok
    /\ probe.v.before[probe.v.url] = Some("Disconnected")
    /\ connected_relays(relays) # {}

\* ------------------------------------------------------------------------
\* App: the key events of the main loop
\* ------------------------------------------------------------------------
MaxInput == 1

\* the characters typed: q ? a n r u l c k j g G and space
AppChars == {113, 63, 97, 110, 114, 117, 108, 99, 107, 106, 103, 71, 32}

\* the key events the terminal delivers
Keys ==
    {Char(c) : c \in AppChars}
        \cup {Ctrl(Char(99)), Ctrl(Key("Enter"))}
        \cup {Key(code) : code \in {"Esc", "Enter", "Backspace", "Tab", "Up", "Down",
                                    "Home", "End"}}

\* the password "n" of a keystore an earlier run left in the directory
EARLIER_PASSWORD == <<110>>

\* App::new in a directory without files, and in one where an earlier run has
\* made its keystore
InitApp ==
    /\ EventIdle /\ CryptoIdle /\ StoreIdle /\ PureIdle /\ RelayIdle /\ RegistryIdle
    /\ app \in {App_new,
                [App_new EXCEPT !.account_manager.ksf =
                    Some(create_keystore(<<>>, EARLIER_PASSWORD, 1).val)]}

\* the characters that get into a text: n, which the compose view opened by 'n'
\* takes as its first character, and the line feed that Enter appends to the
\* text of a post; the other characters are typed where no text takes them
TextChars == {110, 10}

\* the text is within MaxInput characters, all of them of TextChars
Typed(text) ==
    /\ Len(text) <= MaxInput
    /\ \A i \in 1..Len(text) : text[i] \in TextChars

\* run_app: handle_input of the next key event, until it asks for the exit; a
\* key that would leave a text that is not Typed is not pressed
HandleInput ==
    /\ ~app.should_quit
    /\ \E key \in Keys, io \in IO :
        \E out \in {handle_input(app, key, fresh_entropy(app.account_manager), io)} :
            /\ Typed(out.st.password_input)
            /\ Typed(out.st.compose_text)
            /\ app' = out.st
    /\ UNCHANGED <<eventVars, cryptoVars, storeVars, pureVars, relayVars,
                   registryVars>>

NextApp == HandleInput

SpecApp == InitApp /\ [][NextApp]_vars

\* ------------------------------------------------------------------------
\* Claims: App
\* ------------------------------------------------------------------------
\* C38: after any sequence of key events, keystore_unlocked equals
\* account_manager.is_unlocked().
C38_FlagMatchesManager ==
    app.keystore_unlocked = is_unlocked(app.account_manager)

\* C38 witness: the keystore of an earlier run was unlocked at the prompt
C38_Witness ==
    /\ app.keystore_unlocked
    /\ is_unlocked(app.account_manager)
    /\ Opens(app.account_manager.ksf, EARLIER_PASSWORD)

\* C39: in every state reachable by key events the compose view is shown only
\* while keystore_unlocked is true.
C39_ComposeOnlyUnlocked ==
    app.current_view = "ComposeModal" => app.keystore_unlocked

\* C39 witness: the compose view is shown and a character was typed into it
C39_Witness ==
    /\ app.current_view = "ComposeModal"
    /\ app.keystore_unlocked
    /\ app.compose_text # <<>>

\* C40: in every state reachable by key events the password prompt is active
\* only in the account view, and password_input is empty while the prompt is
\* not active.
C40_PromptOnlyInAccountView ==
    /\ app.password_prompt_active => app.current_view = "AccountModal"
    /\ ~app.password_prompt_active => app.password_input = <<>>

====
